---- MODULE Spec2Model ----
(***************************************************************************)
(* Fixed-point model of the SkateBrake simulation core: the fuzzy brake    *)
(* controller (fuzzy/controller.ts), the physics integrator and the        *)
(* requestAnimationFrame scheduler (physics/engine.ts) and the handlers of *)
(* App.tsx that drive them.                                                *)
(*                                                                         *)
(* Numbers.  The source computes in IEEE doubles; the model computes in    *)
(* integers on fixed grids, truncating toward zero where a quotient leaves *)
(* the grid:                                                               *)
(*   time          1 tick  = dt/200 = 1/24000 s      (dt = 1/120 s)        *)
(*   acceleration  1 unit  = 0.0003 m/s^2            (g = 9.81 -> 32700)   *)
(*   velocity      1 unit  = 0.0003 m/s^2 * dt       (1 m/s -> 400000)     *)
(*   position      1 unit  = velocity unit * dt      (1 m   -> 48000000)   *)
(*   mass          kg;  mu in 1/100;  c_roll in 1/1000;  angles in degrees *)
(*   brake percent and brake-domain breakpoints in 1/1000                  *)
(*   membership degrees in 1/10000                                         *)
(*   controller inputs: speed in mm/s, distance in cm                      *)
(* With these units a*dt is numerically a and v*dt is numerically v, so    *)
(* the semi-implicit Euler update is exact on the grid.                    *)
(***************************************************************************)
EXTENDS Integers, Sequences, FiniteSets, TLC

\* ---------------------------------------------------------------- units
DtTicks == 200
MaxAccum == 2400
GUnits == 32700
VelTol == 400
VelPerMs == 400000
PosPerM == 48000000
SpeedQuant == 400
DistQuant == 480000
DegScale == 10000
BrakeScale == 1000
Samples == 200

Min(a, b) == IF a <= b THEN a ELSE b
Max(a, b) == IF a >= b THEN a ELSE b
Abs(a) == IF a < 0 THEN -a ELSE a
Sign(a) == IF a > 0 THEN 1 ELSE IF a < 0 THEN -1 ELSE 0
\* quotient truncated toward zero (b > 0)
Quot(a, b) == IF a >= 0 THEN a \div b ELSE -((-a) \div b)
\* a*b/c truncated toward zero without leaving 32 bits (0 <= b, 0 < c, b*c < 2^31)
MulDiv(a, b, c) ==
  LET n == Abs(a)
      q == (n \div c) * b + ((n % c) * b) \div c
  IN IF a >= 0 THEN q ELSE -q

\* Math.sin / Math.cos of an angle given in whole degrees, in 1/10000
SinTab(deg) ==
  LET d == Abs(deg)
      s == CASE d = 0 -> 0 [] d = 5 -> 872 [] d = 10 -> 1736 [] d = 20 -> 3420
  IN IF deg < 0 THEN -s ELSE s
CosTab(deg) ==
  LET d == Abs(deg)
  IN CASE d = 0 -> 10000 [] d = 5 -> 9962 [] d = 10 -> 9848 [] d = 20 -> 9397

\* ------------------------------------------------------ fuzzy controller
Tri(n, a, b, c) == [name |-> n, type |-> "tri", params |-> <<a, b, c>>]

DefaultSpeedMFs ==
  << Tri("Low", 0, 0, 4000), Tri("Medium", 2000, 5000, 8000),
     Tri("High", 6000, 10000, 10000) >>
DefaultDistanceMFs ==
  << Tri("Close", 0, 0, 500), Tri("Medium", 300, 900, 1500),
     Tri("Far", 1200, 2000, 2000) >>
DefaultBrakeMFs ==
  << Tri("Soft", 0, 0, 400), Tri("Moderate", 200, 500, 800),
     Tri("Hard", 600, 1000, 1000) >>

rulesWithoutFarLow ==
  << [dist |-> "Close",  speed |-> "High",   brake |-> "Hard"],
     [dist |-> "Close",  speed |-> "Medium", brake |-> "Hard"],
     [dist |-> "Close",  speed |-> "Low",    brake |-> "Moderate"],
     [dist |-> "Medium", speed |-> "High",   brake |-> "Moderate"],
     [dist |-> "Medium", speed |-> "Medium", brake |-> "Moderate"],
     [dist |-> "Medium", speed |-> "Low",    brake |-> "Soft"],
     [dist |-> "Far",    speed |-> "High",   brake |-> "Moderate"],
     [dist |-> "Far",    speed |-> "Medium", brake |-> "Soft"] >>
rules ==
  << [dist |-> "Close",  speed |-> "High",   brake |-> "Hard"],
     [dist |-> "Close",  speed |-> "Medium", brake |-> "Hard"],
     [dist |-> "Close",  speed |-> "Low",    brake |-> "Moderate"],
     [dist |-> "Medium", speed |-> "High",   brake |-> "Moderate"],
     [dist |-> "Medium", speed |-> "Medium", brake |-> "Moderate"],
     [dist |-> "Medium", speed |-> "Low",    brake |-> "Soft"],
     [dist |-> "Far",    speed |-> "High",   brake |-> "Moderate"],
     [dist |-> "Far",    speed |-> "Medium", brake |-> "Soft"],
     [dist |-> "Far",    speed |-> "Low",    brake |-> "Soft"] >>

\* a quotient of two doubles that is not a finite number (0/0 is NaN, n/0 is
\* infinite) is kept as a marker outside the range of membership degrees
NotANumber == -1
\* n / d as a membership degree
Ratio(n, d) == IF d = 0 THEN NotANumber ELSE (n * DegScale) \div d

triSawtooth(x, a, b, c) ==
  IF x <= a \/ x >= c THEN 0
  ELSE IF x <= b THEN Ratio(x - a, b - a)
  ELSE DegScale
triOpen(x, a, b, c) ==
  IF x < a \/ x > c THEN 0
  ELSE IF x <= b THEN Ratio(x - a, b - a)
  ELSE Ratio(c - x, c - b)
tri(x, a, b, c) ==
  IF x <= a \/ x >= c THEN 0
  ELSE IF x <= b THEN Ratio(x - a, b - a)
  ELSE Ratio(c - x, c - b)

trap(x, a, b, c, d) ==
  IF x <= a \/ x >= d THEN 0
  ELSE IF x >= b /\ x <= c THEN DegScale
  ELSE IF x > a /\ x < b THEN Ratio(x - a, b - a)
  ELSE Ratio(d - x, d - c)

evalMF(mf, x) ==
  IF mf.type = "tri"
  THEN tri(x, mf.params[1], mf.params[2], mf.params[3])
  ELSE trap(x, mf.params[1], mf.params[2], mf.params[3], mf.params[4])

\* Object.fromEntries(list.map(m => [m.name, evalMF(m, x)]))[name] ?? 0 :
\* the last entry of that name wins, a missing name reads as 0
DegOf(list, name, x) ==
  LET idx == {i \in DOMAIN list : list[i].name = name}
  IN IF idx = {} THEN 0
     ELSE evalMF(list[CHOOSE i \in idx : \A j \in idx : j <= i], x)

\* brakeActivations[label] = degree : the assignment without Math.max, the
\* last rule naming the label decides
RuleMaxLastWins(rl, k, label, sl, dl, speed, distance) ==
  LET idx == {i \in k..Len(rl) : rl[i].brake = label}
  IN IF idx = {} THEN 0
     ELSE LET r == rl[CHOOSE i \in idx : \A j \in idx : j <= i]
          IN Min(DegOf(sl, r.speed, speed), DegOf(dl, r.dist, distance))
\* brakeActivations[label] after the loop over the rules rl (?? 0 when unset)
RECURSIVE RuleMax(_, _, _, _, _, _, _)
RuleMax(rl, k, label, sl, dl, speed, distance) ==
  IF k > Len(rl) THEN 0
  ELSE LET r == rl[k]
           rest == RuleMax(rl, k + 1, label, sl, dl, speed, distance)
       IN IF r.brake = label
          THEN Max(rest, Min(DegOf(sl, r.speed, speed), DegOf(dl, r.dist, distance)))
          ELSE rest

\* aggregated membership at brake value x: max over the brake MFs of min(base, act)
RECURSIVE AggMu(_, _, _, _)
AggMu(k, bl, acts, x) ==
  IF k > Len(bl) THEN 0
  ELSE IF acts[k] = 0 THEN AggMu(k + 1, bl, acts, x)   \* min(base, 0) never raises mu
  ELSE Max(Min(evalMF(bl[k], x), acts[k]), AggMu(k + 1, bl, acts, x))

\* const x = i / samples
SampleXTwice(i) == (2 * i * BrakeScale) \div Samples
SampleX(i) == (i * BrakeScale) \div Samples

\* the sample loop: <<num, den>> accumulated over the samples lo..hi, x = i/samples
\* (summed by halves to keep the evaluation shallow; the sum is the same)
RECURSIVE Centroid(_, _, _, _)
Centroid(lo, hi, bl, acts) ==
  IF lo = hi
  THEN LET x == SampleX(lo)
           m == AggMu(1, bl, acts, x)
       IN <<x * m, m>>
  ELSE LET mid == (lo + hi) \div 2
           l == Centroid(lo, mid, bl, acts)
           r == Centroid(mid + 1, hi, bl, acts)
       IN <<l[1] + r[1], l[2] + r[2]>>

\* the samples at which some brake MF with a non-zero activation can be
\* non-zero (tri and trap return 0 at and outside their first and last
\* parameter); every other sample adds 0 to both sums of the loop, and the
\* sums are taken from the first to the last of these
LiveSamples(bl, acts) ==
  {i \in 0..Samples : \E k \in 1..Len(bl) :
     /\ acts[k] # 0
     /\ bl[k].params[1] < SampleX(i)
     /\ SampleX(i) < bl[k].params[IF bl[k].type = "tri" THEN 3 ELSE 4]}

\* brakeActivations read per brake MF, as a tuple aligned with the brake list
RECURSIVE Activations(_, _, _, _, _, _, _)
Activations(rl, k, bl, sl, dl, speed, distance) ==
  IF k > Len(bl) THEN <<>>
  ELSE <<RuleMax(rl, 1, bl[k].name, sl, dl, speed, distance)>>
       \o Activations(rl, k + 1, bl, sl, dl, speed, distance)


VARIABLES
  params,       \* App useState: the operator's sliders
  simRunning,   \* App useState
  ui,           \* App useState: stopReason, visibleStop, stopFinalized, lastShownPriority
  speedMFs,     \* controller.ts module state
  distanceMFs,
  brakeMFs,
  state,        \* stateRef.current : SimulationState
  rafRef,       \* "null" or "scheduled" (a pending requestAnimationFrame id)
  loop,         \* what the closure created by startLoop / handleStart holds
  pc,           \* "idle" between callbacks, "loop" inside frame's while loop
  logger,       \* loggerRef.current, as the list getAll() returns
  react,        \* what the last render committed (the values its handlers read)
  tuner,        \* FuzzyTuner: whether its tab is shown, and its useState local
  hist          \* history of the current run (observation only)

vars == <<params, simRunning, ui, speedMFs, distanceMFs, brakeMFs, state,
          rafRef, loop, pc, logger, react, tuner, hist>>

\* if (den === 0) return 0; return num / den  (0/0 would be NaN)
DefuzzifyNoGuard(num, den) == IF den = 0 THEN NotANumber ELSE num \div den
Defuzzify(num, den) == IF den = 0 THEN 0 ELSE num \div den

\* getBrakePercent's body, with the rule base and the three lists it reads
\* as arguments
getBrakePercentWith(rl, sl, dl, bl, speed, distance) ==
  LET acts == Activations(rl, 1, bl, sl, dl, speed, distance)
      live == LiveSamples(bl, acts)
      c == IF live = {} THEN <<0, 0>>
           ELSE Centroid(CHOOSE i \in live : \A j \in live : i <= j,
                         CHOOSE i \in live : (i + 1) \notin live /\ \A j \in live : j <= i,
                         bl, acts)
  IN Defuzzify(c[1], c[2])

getBrakePercent(speed, distance) ==
  getBrakePercentWith(rules, speedMFs, distanceMFs, brakeMFs, speed, distance)

\* computeBrakeWithMFs(mfs, speed, distance), translated statement by
\* statement from its own body; it shares evalMF and rules with
\* getBrakePercent and nothing else.
\* Object.fromEntries(list.map((m) => [m.name, evalMF(m, x)])), the entries
\* from k on added to degs: an entry replaces an earlier one of its name
NoEntries == [n \in {} |-> 0]
RECURSIVE fromEntries(_, _, _, _)
fromEntries(list, k, x, degs) ==
  IF k > Len(list) THEN degs
  ELSE fromEntries(list, k + 1, x,
                   [n \in (DOMAIN degs) \cup {list[k].name} |->
                      IF n = list[k].name THEN evalMF(list[k], x) ELSE degs[n]])
\* rec[name] ?? 0
orZero(rec, name) == IF name \in DOMAIN rec THEN rec[name] ELSE 0
\* for (const r of rules), from rule k on:
\* brakeActivations[r.brake] = Math.max(brakeActivations[r.brake] ?? 0, degree)
RECURSIVE ruleLoop(_, _, _, _)
ruleLoop(k, speedDegs, distDegs, brakeActivations) ==
  IF k > Len(rules) THEN brakeActivations
  ELSE LET r == rules[k]
           sd == orZero(speedDegs, r.speed)
           dd == orZero(distDegs, r.dist)
           degree == Min(sd, dd)
       IN ruleLoop(k + 1, speedDegs, distDegs,
                   [n \in (DOMAIN brakeActivations) \cup {r.brake} |->
                      IF n = r.brake
                      THEN Max(orZero(brakeActivations, r.brake), degree)
                      ELSE brakeActivations[n]])
\* for (const bmf of brakeMFsLocal), from entry k on:
\* mu = Math.max(mu, Math.min(base, act))
RECURSIVE muLoop(_, _, _, _, _)
muLoop(brakeMFsLocal, k, brakeActivations, x, mu) ==
  IF k > Len(brakeMFsLocal) THEN mu
  ELSE LET bmf == brakeMFsLocal[k]
           base == evalMF(bmf, x)
           act == orZero(brakeActivations, bmf.name)
       IN muLoop(brakeMFsLocal, k + 1, brakeActivations, x, Max(mu, Min(base, act)))
\* for (let i = 0; i <= samples; i++) over the samples lo..hi: what
\* num += x * mu and den += mu add to <<num, den>> (the additions are grouped
\* by halves; the sums are whole numbers and come out the same)
RECURSIVE sampleLoop(_, _, _, _)
sampleLoop(lo, hi, brakeMFsLocal, brakeActivations) ==
  IF lo = hi
  THEN LET x == SampleX(lo)
           mu == muLoop(brakeMFsLocal, 1, brakeActivations, x, 0)
       IN <<x * mu, mu>>
  ELSE LET mid == (lo + hi) \div 2
           first == sampleLoop(lo, mid, brakeMFsLocal, brakeActivations)
           second == sampleLoop(mid + 1, hi, brakeMFsLocal, brakeActivations)
       IN <<first[1] + second[1], first[2] + second[2]>>
\* the body with the output functions given apart from mfs
computeBrakeOver(mfs, brakeMFsLocal, speed, distance) ==
  LET speedDegs == fromEntries(mfs.Speed, 1, speed, NoEntries)
      distDegs == fromEntries(mfs.Distance, 1, distance, NoEntries)
      brakeActivations == ruleLoop(1, speedDegs, distDegs, NoEntries)
      sums == sampleLoop(0, Samples, brakeMFsLocal, brakeActivations)
  IN IF sums[2] = 0 THEN 0 ELSE sums[1] \div sums[2]
\* const brakeMFsLocal = brakeMFs: the module's output functions read
computeBrakeWithModuleBrake(mfs, speed, distance) ==
  computeBrakeOver(mfs, brakeMFs, speed, distance)
computeBrakeWithMFs(mfs, speed, distance) ==
  computeBrakeOver(mfs, mfs.Brake, speed, distance)

\* JSON.parse(JSON.stringify(list)): a new array of new objects holding the
\* same names, types and (finite) numbers
JsonCopy(list) ==
  [i \in 1..Len(list) |->
     [name |-> list[i].name, type |-> list[i].type,
      params |-> [j \in 1..Len(list[i].params) |-> list[i].params[j]]]]

\* JSON.parse(JSON.stringify(obj)) of an object of lists
JsonCopyAll(obj) == [g \in DOMAIN obj |-> JsonCopy(obj[g])]

getDefaultMFs ==
  [Speed |-> JsonCopy(speedMFs), Distance |-> JsonCopy(distanceMFs),
   Brake |-> JsonCopy(brakeMFs)]
\* the variables whose returned array is the module's own array: none, each
\* is a copy
getDefaultMFsSharesAll == {"Speed", "Distance", "Brake"}
getDefaultMFsShares == {}

\* setMemberships(obj): the three module variables afterwards; a variable
\* obj does not carry keeps its list
setMembershipsBrakeOnly(obj) ==
  [Speed |-> speedMFs, Distance |-> distanceMFs,
   Brake |-> IF "Brake" \in DOMAIN obj THEN obj.Brake ELSE brakeMFs]
setMemberships(obj) ==
  [Speed |-> IF "Speed" \in DOMAIN obj THEN obj.Speed ELSE speedMFs,
   Distance |-> IF "Distance" \in DOMAIN obj THEN obj.Distance ELSE distanceMFs,
   Brake |-> IF "Brake" \in DOMAIN obj THEN obj.Brake ELSE brakeMFs]

\* ------------------------------------------------------- physics engine
NoDetails == [cause |-> "none", decel |-> 0, decelThreshold |-> 0]

createDefaultState ==
  [t |-> 0, dt |-> DtTicks, x |-> 0, v |-> 6 * VelPerMs, a |-> 0,
   mass |-> 70, mu |-> 70, theta |-> 0, c_roll |-> 10,
   obstaclePosition |-> 20 * PosPerM, lastBrakePercent |-> 0,
   ejectAccelThreshold |-> 80, stopDetails |-> NoDetails]

\* forces in units of 0.1 kg * acceleration unit
MassUnits(s) == Max(1, 10 * s.mass)
NormalForce(s) == MulDiv(MassUnits(s) * GUnits, CosTab(s.theta), 10000)
F_gravity(s) == MulDiv(MassUnits(s) * GUnits, SinTab(s.theta), 10000)
F_rollTenfold(s) == MulDiv(NormalForce(s), s.c_roll, 100)
F_roll(s) == MulDiv(NormalForce(s), s.c_roll, 1000)
F_maxBrake(s) == MulDiv(NormalForce(s), s.mu, 100)
BrakePercentOfUnclamped(s) == s.lastBrakePercent
BrakePercentOf(s) == Max(0, Min(BrakeScale, s.lastBrakePercent))
F_brake_mag(s) == Min(F_maxBrake(s), MulDiv(F_maxBrake(s), BrakePercentOf(s), BrakeScale))

\* resist = F_roll + F_brake_mag
resistRollOnly(s) == F_roll(s)
resist(s) == F_roll(s) + F_brake_mag(s)

\* the static branch's return: v and a zeroed, t advanced
StaticRest(s) == [s EXCEPT !.a = 0, !.v = 0, !.t = s.t + s.dt]

\* if (state.t > 0): no ejection check on the first step
ejectArmedAlways(s) == TRUE
ejectArmed(s) == s.t > 0

\* decel >= decelThreshold, decel in acceleration units, threshold in 0.1 m/s^2
DecelReaches(decel, thr) == decel * 3 >= thr * 1000

\* the ejection branch: stopDetails recorded, a kept as computed, v zeroed, t advanced
EjectStopNoTime(s, a, decel) ==
  [s EXCEPT !.stopDetails = [cause |-> "decel", decel |-> decel,
                             decelThreshold |-> s.ejectAccelThreshold],
            !.a = a, !.v = 0]
EjectStop(s, a, decel) ==
  [s EXCEPT !.stopDetails = [cause |-> "decel", decel |-> decel,
                             decelThreshold |-> s.ejectAccelThreshold],
            !.a = a, !.v = 0, !.t = s.t + s.dt]

\* state.v <= velTol || Math.sign(state.v) !== Math.sign(prevV)
restReachedOnCrossingOnly(newV, prevV) == Sign(newV) # Sign(prevV)
restReached(newV, prevV) == newV <= VelTol \/ Sign(newV) # Sign(prevV)

\* the early stop: v and a zeroed, x restored to prevX, t advanced
RestStopNoTime(s) == [s EXCEPT !.v = 0, !.a = 0]
RestStop(s) == [s EXCEPT !.v = 0, !.a = 0, !.t = s.t + s.dt]

\* the accepted update: a stored, x advanced by the new v, t advanced
Advance(s, a, newV) ==
  [s EXCEPT !.a = a, !.v = newV, !.x = s.x + newV, !.t = s.t + s.dt]

\* the collision branch, applied to the advanced state
ObstacleStopMoving(s) == [s EXCEPT !.x = s.obstaclePosition, !.a = 0]
ObstacleStopNoClamp(s) == [s EXCEPT !.v = 0, !.a = 0]
ObstacleStop(s) == [s EXCEPT !.x = s.obstaclePosition, !.v = 0, !.a = 0]

\* one physics step: the state afterwards, the StopReason returned ("none"
\* for null), the return statement taken and the acceleration a computed
\* (0 where the step returns before computing it)
physicsStep(s) ==
  LET m == MassUnits(s)
      drive == F_gravity(s)
      res == resist(s)
      v == s.v
      static == Abs(v) <= VelTol
      F_net == IF static
               THEN IF drive > res THEN drive - res
                    ELSE IF drive < -res THEN drive + res
                    ELSE 0
               ELSE drive - Sign(v) * F_roll(s) - Sign(v) * F_brake_mag(s)
      a == Quot(F_net, m)
      decel == IF v > 0 /\ a < 0 THEN -a ELSE 0
      newV == v + a
      moved == Advance(s, a, newV)
  IN IF static /\ ~(drive > res) /\ ~(drive < -res)
     THEN [s |-> StaticRest(s), reason |-> "rest", path |-> "static", a |-> 0]
     ELSE IF ejectArmed(s) /\ DecelReaches(decel, s.ejectAccelThreshold)
     THEN [s |-> EjectStop(s, a, decel), reason |-> "eject", path |-> "eject", a |-> a]
     ELSE IF restReached(newV, v)
     THEN [s |-> RestStop(s), reason |-> "rest", path |-> "cross", a |-> a]
     ELSE IF moved.x >= s.obstaclePosition
     THEN [s |-> ObstacleStop(moved), reason |-> "obstacle", path |-> "obstacle", a |-> a]
     ELSE [s |-> moved, reason |-> "none", path |-> "continue", a |-> a]

\* ------------------------------------------------------------ logger
LoggerCapacity == 10000
LoggerPushTwice(l, smp) == Append(Append(l, smp), smp)
LoggerPush(l, smp) == IF Len(l) < LoggerCapacity THEN Append(l, smp) ELSE Append(Tail(l), smp)

\* ---------------------------------------------------------------- App
DefaultParams ==
  [mass |-> 70, initialSpeed |-> 6 * VelPerMs, obstaclePosition |-> 20 * PosPerM,
   mu |-> 70, inclineDeg |-> 0, rollingResistance |-> 10, timeScale |-> 10,
   ejectAccelThreshold |-> 80]

PresetDistance(mode) ==
  CASE mode = "Beginner" ->
         << Tri("Close", 0, 0, 800), Tri("Medium", 600, 1200, 1800), Tri("Far", 1500, 2800, 4000) >>
    [] mode = "Intermediate" ->
         << Tri("Close", 0, 0, 500), Tri("Medium", 300, 900, 1500), Tri("Far", 1200, 2000, 3000) >>
    [] mode = "Advanced" ->
         << Tri("Close", 0, 0, 300), Tri("Medium", 250, 800, 1400), Tri("Far", 1000, 2000, 3500) >>
PresetBrake(mode) ==
  CASE mode = "Beginner" ->
         << Tri("Soft", 0, 0, 300), Tri("Moderate", 150, 350, 600), Tri("Hard", 400, 650, 850) >>
    [] mode = "Intermediate" ->
         << Tri("Soft", 0, 0, 280), Tri("Moderate", 120, 400, 700), Tri("Hard", 450, 800, 1000) >>
    [] mode = "Advanced" ->
         << Tri("Soft", 0, 0, 200), Tri("Moderate", 150, 450, 750), Tri("Hard", 600, 950, 1000) >>
PresetThreshold(mode) ==
  CASE mode = "Beginner" -> 40 [] mode = "Intermediate" -> 75 [] mode = "Advanced" -> 110

priorityOf(r) == IF r = "eject" THEN 3 ELSE IF r = "obstacle" THEN 2 ELSE 1

\* the sample both the mount effect and handleReset push
InitialSample(s) ==
  [t |-> 0, x |-> s.x, v |-> s.v, a |-> 0, brake |-> 0,
   distance |-> Max(0, s.obstaclePosition - s.x)]

\* the effect on [mass, initialSpeed, obstaclePosition, mu, inclineDeg,
\* rollingResistance, ejectAccelThreshold], body under if (!simRunning)
ParamEffect(s, p) ==
  [s EXCEPT !.mass = p.mass, !.v = p.initialSpeed,
            !.obstaclePosition = p.obstaclePosition, !.mu = p.mu,
            !.theta = -p.inclineDeg, !.c_roll = p.rollingResistance,
            !.x = 0, !.t = 0, !.ejectAccelThreshold = p.ejectAccelThreshold]

\* handleStop(reason), run by the onEnd closure: stopFinalized and
\* lastShownPriority are the values of the render that created the closure,
\* visibleStop is read through the functional update
handleStop(u, capFinalized, capPriority, reason) ==
  IF capFinalized /\ priorityOf(reason) <= capPriority
  THEN [u EXCEPT !.stopReason = reason]
  ELSE LET prev == u.visibleStop
           newVisible == IF prev = "eject" THEN prev
                         ELSE IF reason = "eject" THEN "eject"
                         ELSE IF prev = "obstacle" THEN prev
                         ELSE IF reason = "obstacle" THEN "obstacle"
                         ELSE IF prev = "none" THEN "rest"
                         ELSE prev
       IN IF newVisible # "none"
          THEN [u EXCEPT !.stopReason = reason, !.visibleStop = newVisible,
                         !.lastShownPriority = priorityOf(newVisible),
                         !.stopFinalized = FALSE]
          ELSE [u EXCEPT !.stopReason = reason, !.visibleStop = newVisible]

\* handleStop(reason) got past its early return and its updater yields a
\* reason to show: the updater then sets lastShownPriority and stopFinalized
StopShown(capFinalized, capPriority, u, reason) ==
  /\ ~(capFinalized /\ priorityOf(reason) <= capPriority)
  /\ handleStop(u, capFinalized, capPriority, reason).visibleStop # "none"

\* onPhysicsStep(s): the state with the controller's output written back,
\* and the sample pushed
\* the controller's inputs in its own units (mm/s, cm), rounded down; an
\* input above 0 stays above 0, the shoulder functions being 0 at 0 and
\* close to 1 right above it
Quantised(val, quant) == IF val = 0 THEN 0 ELSE Max(1, val \div quant)
ControllerSpeed(s) == Quantised(Abs(s.v), SpeedQuant)
ControllerDistance(s) == Quantised(Max(0, s.obstaclePosition - s.x), DistQuant)
onPhysicsStep(s, l) ==
  LET distance == Max(0, s.obstaclePosition - s.x)
      brakePercent == getBrakePercent(ControllerSpeed(s), ControllerDistance(s))
  IN [s |-> [s EXCEPT !.lastBrakePercent = brakePercent],
      logger |-> LoggerPush(l, [t |-> s.t, x |-> s.x, v |-> s.v, a |-> s.a,
                                brake |-> brakePercent, distance |-> distance])]

\* ------------------------------------------------------------- bounds
MaxStarts == 2        \* runs started in one behaviour
MaxEdits == 1         \* slider / preset / time-scale changes and Apply presses in one behaviour
MaxRunSteps == 5      \* physics steps after which no further frame arrives
LongWindow == 0       \* a very short or very long frame starts within this many steps of a run
PauseWindow == 1      \* pause is pressed within this many steps of a run
EditWindow == 0       \* sliders and the tuner are used within this many steps of a running run

\* the values the operator moves each slider to (a slider already there does
\* not change): start from rest, the nearest obstacle, double speed
SliderValues ==
  [mass |-> {70}, initialSpeed |-> {0}, obstaclePosition |-> {5 * PosPerM},
   mu |-> {70}, inclineDeg |-> {0}, rollingResistance |-> {10},
   timeScale |-> {20}, ejectAccelThreshold |-> {80}]
PresetModes == {"Beginner"}
\* frame intervals (now - lastTime), in units of 1/2400 s: the usual one, and
\* the ones too short for a step or long enough to hit the cap
ShortFrames == {50}
LongFrames == {10, 300}

NoStep == [pre |-> createDefaultState, post |-> createDefaultState,
           reason |-> "none", path |-> "none", a |-> 0]

NewRunHist(h) ==
  [h EXCEPT !.runSteps = 0, !.endCalls = 0, !.endReason = "none",
            !.runTerminal = "none", !.frameAcc0 = 0, !.frameBelow = FALSE,
            !.frameSteps = 0,
            !.frameDone = FALSE, !.last = NoStep, !.scaled = 0,
            !.capHit = FALSE, !.ignored = FALSE]

\* What a render commits: the values of the useState hooks as the handlers
\* and closures created by that render read them.  params, simRunning and ui
\* hold the hooks' values with every queued update applied (what the next
\* render will commit); react holds the last commit.  late tells that an
\* updater of visibleStop queued since then has set stopFinalized and
\* lastShownPriority: it runs during the render, after the setters queued
\* in the same batch.  waited tells that a frame of the loop has run with
\* updates queued: React renders them before the next frame.
\* FuzzyTuner is mounted while the Fuzzy Tuner tab is shown (tabIndex 2), and
\* its local exists as long as it is mounted.
NoLocal == [Speed |-> << >>, Distance |-> << >>, Brake |-> << >>]
TunerClosed == [open |-> FALSE, local |-> NoLocal]

Committed(p, running, u) ==
  [params |-> p, simRunning |-> running, ui |-> u, late |-> FALSE,
   waited |-> FALSE]

\* updates are queued and not yet rendered
Pending ==
  react.params # params \/ react.simRunning # simRunning \/ react.ui # ui

\* the sliders are on a tab of their own: by the time the operator presses a
\* button or moves a slider further, React has rendered what the sliders
\* queued; a frame of the loop can come before that render
SlidersRendered == react.params = params

\* an edit is counted; outside a run it discards what the last run left behind
EditHist(h, running) ==
  LET c == [h EXCEPT !.edits = h.edits + 1]
  IN IF running THEN c ELSE NewRunHist(c)

Init ==
  /\ params = DefaultParams
  /\ simRunning = FALSE
  /\ ui = [stopReason |-> "none", visibleStop |-> "none",
           stopFinalized |-> FALSE, lastShownPriority |-> 0]
  /\ react = Committed(params, simRunning, ui)
  /\ tuner = TunerClosed
  /\ speedMFs = DefaultSpeedMFs
  /\ distanceMFs = PresetDistance("Intermediate")
  /\ brakeMFs = PresetBrake("Intermediate")
  /\ state = ParamEffect(createDefaultState, DefaultParams)
  /\ rafRef = "null"
  /\ loop = [accumulator |-> 0, timeScale |-> 10,
             capFinalized |-> FALSE, capPriority |-> 0, below |-> FALSE]
  /\ pc = "idle"
  /\ logger = << >>
  /\ hist = [starts |-> 0, edits |-> 0, runSteps |-> 0, endCalls |-> 0,
             endReason |-> "none", runTerminal |-> "none", frameAcc0 |-> 0, frameBelow |-> FALSE,
             frameSteps |-> 0, frameDone |-> FALSE, last |-> NoStep,
             scaled |-> 0, capHit |-> FALSE, ignored |-> FALSE]

EditAllowed ==
  /\ pc = "idle"
  /\ hist.edits < MaxEdits
  /\ simRunning => hist.runSteps <= EditWindow

\* the parameter effect's guard: if (!simRunning)
EffectRunsAlways(running) == TRUE
EffectRuns(running) == ~running

\* the dependencies of the parameter effect: every parameter but timeScale
EffectDeps(p) == [name \in (DOMAIN p) \ {"timeScale"} |-> p[name]]

\* the parameter effect as a render runs it: a dependency differs from the
\* last commit, and simRunning, as this render commits it, is false
EffectFires(before, after, running) ==
  EffectDeps(before) # EffectDeps(after) /\ EffectRuns(running)

\* a slider's onChange (from a mouse move) on the Controls tab: the setter
\* queues the update, React renders later, and before the next event of the
\* mouse
SetParam(name, val) ==
  /\ EditAllowed
  /\ ~tuner.open
  /\ SlidersRendered
  /\ params[name] # val
  /\ params' = [params EXCEPT ![name] = val]
  /\ hist' = IF name = "timeScale" THEN EditHist(hist, simRunning)
             ELSE [hist EXCEPT !.edits = @ + 1]
  /\ UNCHANGED <<simRunning, ui, speedMFs, distanceMFs, brakeMFs, state, rafRef,
                 loop, pc, logger, react, tuner>>

\* React renders what is queued and runs the parameter effect
render ==
  /\ pc = "idle"
  /\ Pending
  /\ tuner' = tuner
  /\ react' = Committed(params, simRunning, ui)
  /\ IF EffectFires(react.params, params, simRunning)
     THEN /\ state' = ParamEffect(state, params)
          /\ logger' = << >>
          /\ hist' = NewRunHist(hist)
     ELSE /\ hist' = [hist EXCEPT !.ignored = FALSE]
          /\ UNCHANGED <<state, logger>>
  /\ UNCHANGED <<params, simRunning, ui, speedMFs, distanceMFs, brakeMFs, rafRef,
                 loop, pc>>

\* the preset menu of the title bar: a click, rendered as the handler returns
applyPreset(mode) ==
  /\ EditAllowed
  /\ SlidersRendered
  /\ \/ distanceMFs # PresetDistance(mode)
     \/ brakeMFs # PresetBrake(mode)
     \/ params.ejectAccelThreshold # PresetThreshold(mode)
  /\ speedMFs' = getDefaultMFs.Speed
  /\ distanceMFs' = PresetDistance(mode)
  /\ brakeMFs' = PresetBrake(mode)
  /\ params' = [params EXCEPT !.ejectAccelThreshold = PresetThreshold(mode)]
  /\ tuner' = tuner
  /\ react' = Committed(params', simRunning, ui)
  /\ IF EffectFires(react.params, params', simRunning)
     THEN state' = ParamEffect(state, params') /\ logger' = << >>
     ELSE UNCHANGED <<state, logger>>
  /\ hist' = EditHist(hist, simRunning)
  /\ UNCHANGED <<simRunning, ui, rafRef, loop, pc>>

\* handleTabChange(newValue): the Fuzzy Tuner tab is tab 2; the buttons of the
\* run are on tab 0 and the sliders on tab 1.  Showing the tab mounts
\* FuzzyTuner, whose local starts as getDefaultMFs(); leaving it unmounts the
\* component and its local is gone.  A change between tabs 0 and 1 changes
\* nothing here.
TabValues == {0, 1, 2}
handleTabChange(newValue) ==
  /\ pc = "idle"
  /\ SlidersRendered
  /\ (newValue = 2) # tuner.open
  /\ newValue = 2 => EditAllowed
  /\ tuner' = IF newValue = 2 THEN [open |-> TRUE, local |-> getDefaultMFs]
               ELSE TunerClosed
  /\ react' = Committed(params, simRunning, ui)
  /\ hist' = [hist EXCEPT !.ignored = FALSE]
  /\ UNCHANGED <<params, simRunning, ui, speedMFs, distanceMFs, brakeMFs, state,
                 rafRef, loop, pc, logger>>

\* a button or slider of FuzzyTuner can be used
TunerAllowed == EditAllowed /\ SlidersRendered /\ tuner.open

\* what a handler of FuzzyTuner leaves alone: the App and the engine
TunerFrame ==
  /\ react' = Committed(params, simRunning, ui)
  /\ UNCHANGED <<params, simRunning, ui, state, rafRef, loop, pc, logger>>

\* FuzzyTuner: presetBeginner / presetIntermediate / presetAdvanced put a
\* JSON copy of getDefaultMFs(), as the controller is at the click, with
\* their own Brake and Distance into local (the lists of the title bar's
\* presets, without its threshold); the buttons pressed here are the one
\* whose lists differ from those of the mount effect and the one that
\* brings these back
TunerModes == {"Beginner", "Intermediate"}
tunerPreset(mode) ==
  [JsonCopyAll(getDefaultMFs) EXCEPT !.Brake = PresetBrake(mode),
                                     !.Distance = PresetDistance(mode)]

\* a preset button of FuzzyTuner: setLocal(copy); the controller is not touched
tunerPresetClick(mode) ==
  /\ TunerAllowed
  /\ tuner.local # tunerPreset(mode)
  /\ tuner' = [tuner EXCEPT !.local = tunerPreset(mode)]
  /\ hist' = [hist EXCEPT !.ignored = FALSE]
  /\ UNCHANGED <<speedMFs, distanceMFs, brakeMFs>>
  /\ TunerFrame

\* the sliders of FuzzyTuner moved: group, membership function and parameter
\* (counted from 1 here), and the value
TunerEdits == { [group |-> "Brake", mf |-> 3, param |-> 1, v |-> 500] }
\* FuzzyTuner.updateParam(group, mfIdx, paramIdx, v): local becomes a deep copy
\* of itself with the one parameter written; rendered before Apply can be
\* pressed
tunerUpdateParam(e) ==
  /\ TunerAllowed
  /\ tuner.local[e.group][e.mf].params[e.param] # e.v
  /\ tuner' = [tuner EXCEPT
                 !.local = [JsonCopyAll(@) EXCEPT ![e.group][e.mf].params[e.param] = e.v]]
  /\ hist' = [hist EXCEPT !.ignored = FALSE]
  /\ UNCHANGED <<speedMFs, distanceMFs, brakeMFs>>
  /\ TunerFrame

\* FuzzyTuner.reset: local becomes getDefaultMFs(); the controller is not
\* touched
tunerReset ==
  /\ TunerAllowed
  /\ tuner.local # getDefaultMFs
  /\ tuner' = [tuner EXCEPT !.local = getDefaultMFs]
  /\ hist' = [hist EXCEPT !.ignored = FALSE]
  /\ UNCHANGED <<speedMFs, distanceMFs, brakeMFs>>
  /\ TunerFrame

\* FuzzyTuner.apply: setMemberships(local), idle or during a run; the mode
\* handed to onModeChange only names the title; no parameter and no state of
\* the App's run is written
tunerApply ==
  /\ TunerAllowed
  /\ LET c == setMemberships(tuner.local)
     IN /\ c # [Speed |-> speedMFs, Distance |-> distanceMFs, Brake |-> brakeMFs]
        /\ speedMFs' = c.Speed
        /\ distanceMFs' = c.Distance
        /\ brakeMFs' = c.Brake
  /\ tuner' = tuner
  /\ hist' = [hist EXCEPT !.edits = @ + 1, !.ignored = FALSE]
  /\ TunerFrame

\* what handleStart writes into the state it finds: the operator's mass,
\* speed, obstacle, mu, incline and rolling resistance, x and t zeroed,
\* stopDetails cleared; a, lastBrakePercent and ejectAccelThreshold are kept
StartStateKeepsDetails(s, p) ==
  [s EXCEPT !.mass = p.mass, !.v = p.initialSpeed, !.x = 0, !.t = 0,
            !.obstaclePosition = p.obstaclePosition, !.mu = p.mu,
            !.theta = -p.inclineDeg, !.c_roll = p.rollingResistance]
StartState(s, p) ==
  [s EXCEPT !.mass = p.mass, !.v = p.initialSpeed, !.x = 0, !.t = 0,
            !.obstaclePosition = p.obstaclePosition, !.mu = p.mu,
            !.theta = -p.inclineDeg, !.c_roll = p.rollingResistance,
            !.stopDetails = NoDetails]

\* handleStart's guard: if (!simRunning)
StartAllowedAlways(running) == TRUE
StartAllowed(running) == ~running

\* the Start button: the body under the guard, rendered as the handler
\* returns, or nothing at all; the guard reads simRunning as last rendered.
\* A press that did nothing is noted until the next frame or render
\* (hist.ignored), and is tried within PauseWindow steps of a run in progress
handleStart ==
  /\ pc = "idle"
  /\ ~tuner.open
  /\ SlidersRendered
  /\ IF StartAllowed(react.simRunning)
     THEN /\ hist.starts < MaxStarts
          /\ state' = StartState(state, react.params)
          /\ logger' = << >>
          /\ simRunning' = TRUE
          /\ ui' = [ui EXCEPT !.stopReason = "none", !.stopFinalized = FALSE,
                              !.lastShownPriority = 0]
          /\ loop' = [accumulator |-> 0, timeScale |-> react.params.timeScale,
                      capFinalized |-> react.ui.stopFinalized,
                      capPriority |-> react.ui.lastShownPriority,
                      below |-> FALSE]
          /\ rafRef' = "scheduled"
          /\ tuner' = tuner
          /\ react' = Committed(params, simRunning', ui')
          /\ hist' = NewRunHist([hist EXCEPT !.starts = hist.starts + 1])
          /\ UNCHANGED <<params, speedMFs, distanceMFs, brakeMFs, pc>>
     ELSE /\ ~hist.ignored
          /\ simRunning => hist.runSteps <= PauseWindow
          /\ hist' = [hist EXCEPT !.ignored = TRUE]
          /\ UNCHANGED <<params, simRunning, ui, speedMFs, distanceMFs, brakeMFs,
                         state, rafRef, loop, pc, logger, react, tuner>>

\* cancelAnimationFrame(rafRef.current); rafRef.current = null
stopLoopKeepsFrame(r) == r
stopLoop(r) == "null"

\* the state handleReset builds: createDefaultState() with the operator's
\* mass, speed, obstacle, mu, incline and rolling resistance written in
ResetStateDefaultSpeed(p) ==
  [createDefaultState EXCEPT
     !.mass = p.mass, !.x = 0,
     !.obstaclePosition = p.obstaclePosition, !.mu = p.mu,
     !.theta = -p.inclineDeg, !.c_roll = p.rollingResistance,
     !.stopDetails = NoDetails]
ResetState(p) ==
  [createDefaultState EXCEPT
     !.mass = p.mass, !.v = p.initialSpeed, !.x = 0,
     !.obstaclePosition = p.obstaclePosition, !.mu = p.mu,
     !.theta = -p.inclineDeg, !.c_roll = p.rollingResistance,
     !.stopDetails = NoDetails]

\* the Pause button: if (simRunning), as last rendered
handlePause ==
  /\ pc = "idle"
  /\ ~tuner.open
  /\ SlidersRendered
  /\ react.simRunning
  /\ simRunning => hist.runSteps <= PauseWindow
  /\ rafRef' = stopLoop(rafRef)
  /\ simRunning' = FALSE
  /\ tuner' = tuner
  /\ react' = Committed(params, FALSE, ui)
  /\ hist' = [hist EXCEPT !.ignored = FALSE]
  /\ UNCHANGED <<params, ui, speedMFs, distanceMFs, brakeMFs, state, loop, pc, logger>>

\* the Reset button; setStopFinalized(false) and setLastShownPriority(0) are
\* queued before a pending updater of visibleStop runs
handleReset ==
  /\ pc = "idle"
  /\ ~tuner.open
  /\ SlidersRendered
  /\ rafRef' = stopLoop(rafRef)
  /\ state' = ResetState(react.params)
  /\ logger' = << InitialSample(state') >>
  /\ simRunning' = FALSE
  /\ ui' = [ui EXCEPT !.stopReason = "none", !.stopFinalized = FALSE,
                      !.lastShownPriority = IF react.late THEN @ ELSE 0]
  /\ tuner' = tuner
  /\ react' = Committed(params, FALSE, ui')
  /\ hist' = NewRunHist(hist)
  /\ UNCHANGED <<params, speedMFs, distanceMFs, brakeMFs, loop, pc>>

\* Snackbar / Alert onClose, the notice being open as last rendered:
\* handleSnackbarClose(reason), then setVisibleStop(null)
snackbarClose(reason) ==
  /\ pc = "idle"
  /\ SlidersRendered
  /\ react.ui.visibleStop # "none"
  /\ ui' = [ui EXCEPT !.visibleStop = "none",
                      !.stopFinalized = IF reason = "clickaway" \/ react.late
                                        THEN @ ELSE TRUE]
  /\ tuner' = tuner
  /\ react' = Committed(params, simRunning, ui')
  /\ hist' = [hist EXCEPT !.ignored = FALSE]
  /\ UNCHANGED <<params, simRunning, speedMFs, distanceMFs, brakeMFs, state,
                 rafRef, loop, pc, logger>>

\* if (accumulator > maxAccum) accumulator = maxAccum
\* accumulator += elapsed * timeScale
accumulateAfresh(acc, elapsed, timeScale) == elapsed * timeScale
accumulate(acc, elapsed, timeScale) == acc + elapsed * timeScale

capAccumulatorNone(acc) == acc
capAccumulator(acc) == IF acc > MaxAccum THEN MaxAccum ELSE acc

\* The accumulator is a double: a sum of clock differences, less the steps
\* taken.  The model holds it on a grid on which dt is a whole number, with
\* one bit more where the grid value is a whole multiple of dt: the double
\* is a rounding error short of it.  A sum of clock differences falls on
\* either side; the cap assigns maxAccum itself, which is not short.
sumBelow(sum, capped, dt) ==
  IF capped # sum \/ capped % dt # 0 THEN {FALSE} ELSE BOOLEAN

\* accumulator -= s.dt is exact below 2^-6 s and rounded above it.  With
\* dt = 1/120, the double next below k * dt comes down to dt itself, and not
\* to the double below dt, for these k up to the cap (IEEE 754 binary64,
\* round to nearest): the loop then makes k steps, where the accumulator
\* holds less than k * dt.
RoundedUpMultiples == {5, 6, 7, 9, 10, 11, 12}
differenceBelow(acc, short, dt) ==
  IF short /\ (acc \div dt) \in RoundedUpMultiples THEN BOOLEAN ELSE {short}

\* accumulator >= s.dt / accumulator < s.dt, for the double: below tells
\* that the double is short of dt where the grid value is dt
loopGoesOn(acc, below, dt) == acc > dt \/ (acc = dt /\ ~below)
loopIsLeft(acc, below, dt) == acc < dt \/ (acc = dt /\ below)

\* frame(now), up to the while loop: accumulate and cap; loop.below tells
\* what the subtractions of this frame leave of a sum that is short
frameBegin(elapsed) ==
  /\ pc = "idle"
  /\ rafRef = "scheduled"
  /\ ~react.waited
  /\ tuner' = tuner
  /\ react' = [react EXCEPT !.waited = Pending]
  /\ LET sum == accumulate(loop.accumulator, elapsed, loop.timeScale)
         capped == capAccumulator(sum)
     IN \E short \in sumBelow(sum, capped, state.dt) :
        \E left \in differenceBelow(capped, short, state.dt) :
        /\ loop' = [loop EXCEPT !.accumulator = capped, !.below = left]
        /\ hist' = [hist EXCEPT !.frameAcc0 = capped, !.frameBelow = short,
                                !.frameSteps = 0,
                                !.frameDone = FALSE, !.ignored = FALSE,
                                !.scaled = IF hist.capHit \/ capped # sum THEN 0
                                           ELSE @ + elapsed * loop.timeScale,
                                !.capHit = @ \/ capped # sum]
  /\ pc' = "loop"
  /\ UNCHANGED <<params, simRunning, ui, speedMFs, distanceMFs, brakeMFs, state,
                 rafRef, logger>>

\* if (shouldStop): a StopReason is truthy, null is not
shouldStopUnlessRest(reason) == reason \in {"obstacle", "eject"}
shouldStop(reason) == reason # "none"

\* where frame continues after a step: the return inside if (shouldStop)
\* leaves the callback, otherwise the while condition is tested again
afterStepNoReturn(stop) == "loop"
afterStep(stop) == IF stop THEN "idle" ELSE "loop"

\* one iteration of  while (accumulator >= s.dt); on a terminal step onEnd
\* queues setSimRunning(false) and the updates of handleStop, which React
\* renders after the callback has returned
frameStep ==
  /\ pc = "loop"
  /\ loopGoesOn(loop.accumulator, loop.below, state.dt)
  /\ \E r \in {physicsStep(state)} :
     \E o \in {onPhysicsStep(r.s, logger)} :
     LET stop == shouldStop(r.reason)
         shown == handleStop(ui, loop.capFinalized, loop.capPriority, r.reason)
     IN /\ state' = o.s
        /\ logger' = o.logger
        /\ loop' = [loop EXCEPT !.accumulator = loop.accumulator - state.dt]
        /\ rafRef' = IF stop THEN "null" ELSE rafRef
        /\ simRunning' = IF stop THEN FALSE ELSE simRunning
        /\ ui' = IF stop THEN shown ELSE ui
        /\ tuner' = tuner
        /\ react' = IF stop
                    THEN [react EXCEPT !.late = @ \/ StopShown(loop.capFinalized,
                                                               loop.capPriority,
                                                               ui, r.reason)]
                    ELSE react
        /\ pc' = afterStep(stop)
        /\ hist' = [hist EXCEPT
                      !.runSteps = hist.runSteps + 1,
                      !.frameSteps = hist.frameSteps + 1,
                      !.last = [pre |-> state, post |-> r.s, reason |-> r.reason,
                                path |-> r.path, a |-> r.a],
                      !.runTerminal = IF hist.runTerminal = "none" THEN r.reason ELSE @,
                      !.endCalls = IF stop THEN hist.endCalls + 1 ELSE @,
                      !.endReason = IF stop THEN r.reason ELSE @]
  /\ UNCHANGED <<params, speedMFs, distanceMFs, brakeMFs>>

\* the loop condition fails: uiCallback, schedule the next frame
frameEndNoRequest ==
  /\ pc = "loop"
  /\ loopIsLeft(loop.accumulator, loop.below, state.dt)
  /\ rafRef' = "null"
  /\ pc' = "idle"
  /\ hist' = [hist EXCEPT !.frameDone = TRUE]
  /\ UNCHANGED <<react, tuner, params, simRunning, ui, speedMFs, distanceMFs, brakeMFs, state,
                 loop, logger>>
frameEnd ==
  /\ pc = "loop"
  /\ loopIsLeft(loop.accumulator, loop.below, state.dt)
  /\ rafRef' = "scheduled"
  /\ pc' = "idle"
  /\ hist' = [hist EXCEPT !.frameDone = TRUE]
  /\ UNCHANGED <<react, tuner, params, simRunning, ui, speedMFs, distanceMFs, brakeMFs, state,
                 loop, logger>>

\* the frames the browser delivers: any interval while the run is within
\* MaxRunSteps, the extreme intervals only near the start of a run; the
\* operator who has the tuner's tab open during a run leaves it within
\* EditWindow steps of the run
FrameArrives(elapsed) ==
  /\ hist.runSteps < MaxRunSteps
  /\ tuner.open => hist.runSteps <= EditWindow
  /\ elapsed \in LongFrames => hist.runSteps <= LongWindow
  /\ frameBegin(elapsed)

Next ==
  \/ \E name \in DOMAIN SliderValues : \E val \in SliderValues[name] : SetParam(name, val)
  \/ render
  \/ \E mode \in PresetModes : applyPreset(mode)
  \/ \E newValue \in TabValues : handleTabChange(newValue)
  \/ \E mode \in TunerModes : tunerPresetClick(mode)
  \/ \E e \in TunerEdits : tunerUpdateParam(e)
  \/ tunerReset
  \/ tunerApply
  \/ handleStart
  \/ handlePause
  \/ handleReset
  \/ \E reason \in {"clickaway", "button"} : snackbarClose(reason)
  \/ \E elapsed \in ShortFrames \cup LongFrames : FrameArrives(elapsed)
  \/ frameStep
  \/ frameEnd

Spec == Init /\ [][Next]_vars

\* --------------------------------------------- a run after an ejection
\* The App taken up from the state an ejected run leaves behind: obstacle at
\* 5 m, Beginner preset, Start, and the second step ejects.  The edits of the
\* bounds are counted again from there, so that a further run with changed
\* parameters fits in; the operator goes on with the sliders and the
\* buttons, the memberships stay those of the ejected run.
EjectRunParams ==
  [DefaultParams EXCEPT !.obstaclePosition = 5 * PosPerM,
                        !.ejectAccelThreshold = PresetThreshold("Beginner")]

InitAfterEject ==
  /\ params = EjectRunParams
  /\ simRunning = FALSE
  /\ speedMFs = DefaultSpeedMFs
  /\ distanceMFs = PresetDistance("Beginner")
  /\ brakeMFs = PresetBrake("Beginner")
  /\ rafRef = "null"
  /\ pc = "idle"
  /\ ui = handleStop([stopReason |-> "none", visibleStop |-> "none",
                      stopFinalized |-> FALSE, lastShownPriority |-> 0],
                     FALSE, 0, "eject")
  /\ react = Committed(params, simRunning, ui)
  /\ tuner = TunerClosed
  /\ \E s0 \in {StartState(ParamEffect(createDefaultState, EjectRunParams), EjectRunParams)} :
     \E r1 \in {physicsStep(s0)} :
     \E o1 \in {onPhysicsStep(r1.s, << >>)} :
     \E r2 \in {physicsStep(o1.s)} :
     \E o2 \in {onPhysicsStep(r2.s, o1.logger)} :
        /\ r1.reason = "none"
        /\ r2.reason = "eject"
        /\ state = o2.s
        /\ logger = o2.logger
        /\ loop = [accumulator |-> 500 - 2 * s0.dt, timeScale |-> 10,
                   capFinalized |-> FALSE, capPriority |-> 0, below |-> FALSE]
        /\ hist = [starts |-> 1, edits |-> 0, runSteps |-> 2, endCalls |-> 1,
                   endReason |-> "eject", runTerminal |-> "eject",
                   frameAcc0 |-> 500, frameBelow |-> FALSE, frameSteps |-> 2, frameDone |-> FALSE,
                   last |-> [pre |-> o1.s, post |-> r2.s, reason |-> r2.reason,
                             path |-> r2.path, a |-> r2.a],
                   scaled |-> 500, capHit |-> FALSE, ignored |-> FALSE]

NextAgain ==
  \/ \E name \in DOMAIN SliderValues : \E val \in SliderValues[name] : SetParam(name, val)
  \/ render
  \/ handleStart
  \/ handlePause
  \/ handleReset
  \/ \E reason \in {"clickaway", "button"} : snackbarClose(reason)
  \/ \E elapsed \in ShortFrames \cup LongFrames : FrameArrives(elapsed)
  \/ frameStep
  \/ frameEnd

SpecAgain == InitAfterEject /\ [][NextAgain]_vars

\* ------------------------------------------- one run, frames of any length
\* The operator presses Start and leaves the run alone; the browser delivers
\* the frames at intervals of every whole number of steps up to the cap, of
\* half steps between them and beyond the cap, at the time scale of the
\* sliders' default.
FrameIntervals ==
  {20 * k : k \in 1..12} \cup {10 * k : k \in {1, 3, 5, 11, 17, 23}} \cup LongFrames

NextFrames ==
  \/ hist.starts = 0 /\ handleStart
  \/ \E elapsed \in FrameIntervals : hist.runSteps < MaxRunSteps /\ frameBegin(elapsed)
  \/ frameStep
  \/ frameEnd

SpecFrames == Init /\ [][NextFrames]_vars

\* ------------------------------------------------ one run left to itself
\* The operator sets the run up, starts it once and neither pauses nor resets
\* it; requestAnimationFrame keeps delivering frames and every callback runs
\* to its end.
RunAlone ==
  \/ \E name \in DOMAIN SliderValues : \E val \in SliderValues[name] :
       ~simRunning /\ hist.edits = 0 /\ SetParam(name, val)
  \/ \E mode \in PresetModes : ~simRunning /\ hist.edits = 0 /\ applyPreset(mode)
  \/ render
  \/ hist.starts = 0 /\ handleStart
  \/ \E reason \in {"clickaway", "button"} : snackbarClose(reason)
  \/ \E elapsed \in ShortFrames \cup LongFrames :
       (elapsed \in LongFrames => hist.runSteps <= LongWindow) /\ frameBegin(elapsed)
  \/ frameStep
  \/ frameEnd

Frame ==
  \/ \E elapsed \in ShortFrames \cup LongFrames :
       (elapsed \in LongFrames => hist.runSteps <= LongWindow) /\ frameBegin(elapsed)
  \/ frameStep
  \/ frameEnd

\* Frame told by what it does to pc and the accumulator alone: the callback is
\* entered, consumes one dt, or returns.  It is enabled exactly where Frame is
\* (a frame is scheduled, or the callback is inside its loop) and a step of
\* RunAlone is a FrameAdvances step exactly if it is a Frame step (FrameSeen).
NextAccumulators ==
  {loop.accumulator, loop.accumulator - state.dt}
    \cup {capAccumulator(accumulate(loop.accumulator, elapsed, loop.timeScale)) :
            elapsed \in ShortFrames \cup LongFrames}
FrameAdvances ==
  /\ pc = "loop" \/ (pc = "idle" /\ rafRef = "scheduled" /\ ~react.waited)
  /\ \E p \in {"idle", "loop"} : \E acc \in NextAccumulators :
       /\ <<p, acc>> # <<pc, loop.accumulator>>
       /\ pc' = p
       /\ \E short \in BOOLEAN : loop' = [loop EXCEPT !.accumulator = acc, !.below = short]

FrameSeen == [][Frame <=> FrameAdvances]_vars

\* requestAnimationFrame runs every callback it was asked for, and a callback
\* that was entered runs on: weak fairness of the frame callback; React
\* renders what is queued: weak fairness of render
LiveSpec ==
  Init /\ [][RunAlone]_vars /\ WF_<<pc, loop>>(FrameAdvances) /\ WF_vars(render)

\* --------------------------------------------- physicsStep on its own
\* physicsStep applied to arbitrary SimulationStates: the host's inputs are
\* drawn in InitStep, the brake percent stays as the host left it
MaxUnitSteps == 3
StepVelocities ==
  {-6 * VelPerMs, -VelTol - 1, -VelTol, 0, 200, VelTol, VelTol + 1, 2000,
   40000, 6 * VelPerMs}
StepObstacles == {0, 4000000, 20 * PosPerM}
StepBrakes == {-500, 0, 500, 1000, 1500}
StepThresholds == {0, 10, 40, 80}

InitStep ==
  /\ params = DefaultParams
  /\ simRunning = FALSE
  /\ ui = [stopReason |-> "none", visibleStop |-> "none",
           stopFinalized |-> FALSE, lastShownPriority |-> 0]
  /\ react = Committed(params, simRunning, ui)
  /\ tuner = TunerClosed
  /\ speedMFs = DefaultSpeedMFs
  /\ distanceMFs = DefaultDistanceMFs
  /\ brakeMFs = DefaultBrakeMFs
  /\ \E v \in StepVelocities, t \in {0, DtTicks}, o \in StepObstacles,
        th \in {-20, 0, 20}, cr \in {0, 10}, ms \in {0, 70},
        b \in StepBrakes, thr \in StepThresholds :
        state = [createDefaultState EXCEPT
                   !.v = v, !.t = t, !.obstaclePosition = o, !.theta = th,
                   !.c_roll = cr, !.mass = ms, !.lastBrakePercent = b,
                   !.ejectAccelThreshold = thr]
  /\ rafRef = "null"
  /\ loop = [accumulator |-> 0, timeScale |-> 10,
             capFinalized |-> FALSE, capPriority |-> 0, below |-> FALSE]
  /\ pc = "unit"
  /\ logger = << >>
  /\ hist = [starts |-> 0, edits |-> 0, runSteps |-> 0, endCalls |-> 0,
             endReason |-> "none", runTerminal |-> "none", frameAcc0 |-> 0, frameBelow |-> FALSE,
             frameSteps |-> 0, frameDone |-> FALSE, last |-> NoStep,
             t0 |-> state.t]

UnitStep ==
  /\ pc = "unit"
  /\ hist.runSteps < MaxUnitSteps
  /\ LET r == physicsStep(state)
     IN /\ state' = r.s
        /\ hist' = [hist EXCEPT
                      !.runSteps = hist.runSteps + 1,
                      !.last = [pre |-> state, post |-> r.s, reason |-> r.reason,
                                path |-> r.path, a |-> r.a],
                      !.runTerminal = IF hist.runTerminal = "none" THEN r.reason ELSE @]
  /\ UNCHANGED <<react, tuner, params, simRunning, ui, speedMFs, distanceMFs, brakeMFs,
                 rafRef, loop, pc, logger>>

NextStep == UnitStep

SpecStep == InitStep /\ [][NextStep]_vars

\* ------------------------------------- the App and physicsStep together
\* The runs the App drives with the controller in the loop, and beside them
\* physicsStep on states whose lastBrakePercent a host wrote freely.
NextBoth == Next \/ NextStep

SpecBoth == (Init \/ InitStep) /\ [][NextBoth]_vars

\* ------------------------------- physicsStep with the brake held fixed
\* physicsStep called again and again on one state until it returns a
\* StopReason, nothing else touching the state: lastBrakePercent stays at the
\* value the scenario fixes.  The other fields are createDefaultState's
\* (theta 0, mass 70, mu 0.7, c_roll 0.01, v 6, obstaclePosition 20, x 0).
FixedBrakes == {0, BrakeScale}
FixedThresholds == {10, 80}

InitFixed ==
  /\ params = DefaultParams
  /\ simRunning = FALSE
  /\ ui = [stopReason |-> "none", visibleStop |-> "none",
           stopFinalized |-> FALSE, lastShownPriority |-> 0]
  /\ react = Committed(params, simRunning, ui)
  /\ tuner = TunerClosed
  /\ speedMFs = DefaultSpeedMFs
  /\ distanceMFs = DefaultDistanceMFs
  /\ brakeMFs = DefaultBrakeMFs
  /\ \E b \in FixedBrakes, thr \in FixedThresholds :
        state = [createDefaultState EXCEPT
                   !.lastBrakePercent = b, !.ejectAccelThreshold = thr]
  /\ rafRef = "null"
  /\ loop = [accumulator |-> 0, timeScale |-> 10,
             capFinalized |-> FALSE, capPriority |-> 0, below |-> FALSE]
  /\ pc = "fixed"
  /\ logger = << >>
  /\ hist = [starts |-> 0, edits |-> 0, runSteps |-> 0, endCalls |-> 0,
             endReason |-> "none", runTerminal |-> "none", frameAcc0 |-> 0, frameBelow |-> FALSE,
             frameSteps |-> 0, frameDone |-> FALSE, last |-> NoStep,
             t0 |-> state.t]

\* the caller stops calling once a StopReason is returned
FixedStep ==
  /\ pc = "fixed"
  /\ hist.runTerminal = "none"
  /\ LET r == physicsStep(state)
     IN /\ state' = r.s
        /\ hist' = [hist EXCEPT
                      !.runSteps = hist.runSteps + 1,
                      !.last = [pre |-> state, post |-> r.s, reason |-> r.reason,
                                path |-> r.path, a |-> r.a],
                      !.runTerminal = r.reason]
  /\ UNCHANGED <<react, tuner, params, simRunning, ui, speedMFs, distanceMFs, brakeMFs,
                 rafRef, loop, pc, logger>>

NextFixed == FixedStep

SpecFixed == InitFixed /\ [][NextFixed]_vars

\* ------------------------------------------ the controller on its own
\* The module controller.ts driven through its exported functions by a caller
\* that holds one object at a time: one it built itself, or one returned by
\* getDefaultMFs.  hist.shared names the variables whose array in the caller's
\* object is the very array the module holds.
MaxCtlOps == 3

Trap(n, a, b, c, d) == [name |-> n, type |-> "trap", params |-> <<a, b, c, d>>]

SymmetricBrake ==
  << Tri("Soft", 0, 200, 400), Tri("Moderate", 300, 500, 700),
     Tri("Hard", 600, 800, 1000) >>

CtlGroups == {"Speed", "Distance", "Brake"}

\* the objects the caller builds
CallerObjects ==
  { \* the Beginner preset
    [Speed |-> DefaultSpeedMFs, Distance |-> PresetDistance("Beginner"),
     Brake |-> PresetBrake("Beginner")],
    \* symmetric output triangles
    [Speed |-> DefaultSpeedMFs, Distance |-> DefaultDistanceMFs,
     Brake |-> SymmetricBrake],
    \* shoulders as trapezoids with a plateau at the ends of the range, and
    \* output triangles narrower than a few samples
    [Speed |-> << Trap("Low", -1000, 0, 2000, 4000), Tri("Medium", 2000, 5000, 8000),
                  Trap("High", 6000, 8000, 12000, 12000) >>,
     Distance |-> << Trap("Close", -100, 0, 300, 500), Tri("Medium", 300, 900, 1500),
                     Trap("Far", 1200, 2000, 6000, 6000) >>,
     Brake |-> << Tri("Soft", 101, 102, 103), Tri("Moderate", 498, 502, 506),
                  Tri("Hard", 900, 950, 1000) >>],
    \* degenerate breakpoints: a = b, b = c, c = d, a = b = c
    [Speed |-> << Tri("Low", 0, 0, 0), Tri("Medium", 1000, 1000, 7000),
                  Tri("High", 5000, 7000, 7000) >>,
     Distance |-> << Trap("Close", 200, 200, 200, 200), Trap("Medium", 0, 0, 1300, 1300),
                     Tri("Far", 1300, 1600, 5000) >>,
     Brake |-> << Tri("Soft", 0, 0, 0), Tri("Moderate", 500, 500, 500),
                  Trap("Hard", 600, 600, 1000, 1000) >>],
    \* output functions reaching outside [0, 1]
    [Speed |-> DefaultSpeedMFs, Distance |-> PresetDistance("Advanced"),
     Brake |-> << Tri("Soft", -400, 0, 400), Tri("Moderate", 200, 500, 800),
                  Tri("Hard", 600, 1200, 1500) >>],
    \* names the rules do not use, a name used twice, a single output function
    [Speed |-> << Tri("Slow", 0, 0, 4000), Tri("Medium", 2000, 5000, 8000),
                  Tri("Medium", 0, 5000, 10000) >>,
     Distance |-> DefaultDistanceMFs,
     Brake |-> << Tri("Hard", 600, 1000, 1000) >>],
    \* objects that carry only some of the variables
    [Brake |-> SymmetricBrake],
    [Speed |-> << Tri("Low", 0, 1000, 4000), Tri("Medium", 2000, 5000, 8000),
                  Tri("High", 6000, 9000, 10000) >>,
     Distance |-> PresetDistance("Advanced")] }

\* controller inputs <<speed in mm/s, distance in cm>>: both ends of the
\* ranges, beyond every function, and points where one or several rules fire
CtlInputs ==
  { <<0, 0>>, <<15000, 5000>>, <<15000, 0>>, <<0, 5000>>, <<1000, 200>>,
    <<5000, 200>>, <<1000, 1600>>, <<7000, 1300>> }
\* the points membership functions are evaluated at (the breakpoints of the
\* objects above among them)
EvalPoints == {-1000, 0, 100, 200, 500, 502, 1000, 1300, 3000, 7000, 12000}
\* what the caller changes in its object: a breakpoint moved by a step, or
\* the last function of a list removed
Mutations ==
  { [group |-> "Speed", mf |-> 1, param |-> 3, by |-> 1000],
    [group |-> "Brake", mf |-> 1, param |-> 3, by |-> 50],
    [group |-> "Distance", mf |-> 0, param |-> 0, by |-> 0] }

Config == [Speed |-> speedMFs, Distance |-> distanceMFs, Brake |-> brakeMFs]

\* the caller's write into its object
Mutated(obj, m) ==
  IF m.mf = 0
  THEN [obj EXCEPT ![m.group] = SubSeq(@, 1, Len(@) - 1)]
  ELSE [obj EXCEPT ![m.group][m.mf].params[m.param] = @ + m.by]

NoOp == [op |-> "none"]

InitCtl ==
  /\ params = DefaultParams
  /\ simRunning = FALSE
  /\ ui = [stopReason |-> "none", visibleStop |-> "none",
           stopFinalized |-> FALSE, lastShownPriority |-> 0]
  /\ react = Committed(params, simRunning, ui)
  /\ tuner = TunerClosed
  /\ speedMFs = DefaultSpeedMFs
  /\ distanceMFs = DefaultDistanceMFs
  /\ brakeMFs = DefaultBrakeMFs
  /\ state = createDefaultState
  /\ rafRef = "null"
  /\ loop = [accumulator |-> 0, timeScale |-> 10,
             capFinalized |-> FALSE, capPriority |-> 0, below |-> FALSE]
  /\ pc = "ctl"
  /\ logger = << >>
  /\ hist = [ops |-> 0, hasObj |-> FALSE, obj |-> << >>, origin |-> "none",
             installed |-> FALSE, shared |-> {}, last |-> NoOp, first |-> NoOp]

\* "ctl": the caller starts with the module as loaded; "use": the caller has
\* installed an object and goes on using the module, and the first inference
\* since the last setMemberships is remembered
CtlReady == pc \in {"ctl", "use"} /\ hist.ops < MaxCtlOps

CtlFrame == UNCHANGED <<react, tuner, params, simRunning, ui, state, rafRef, loop, pc, logger>>

\* the caller builds an object
CtlMake(o) ==
  /\ CtlReady
  /\ hist' = [hist EXCEPT !.ops = @ + 1, !.hasObj = TRUE, !.obj = o,
                          !.origin = "caller", !.installed = FALSE,
                          !.shared = {}, !.last = [op |-> "make"]]
  /\ UNCHANGED <<speedMFs, distanceMFs, brakeMFs>>
  /\ CtlFrame

\* const obj = getDefaultMFs()
CtlGet ==
  /\ CtlReady
  /\ hist' = [hist EXCEPT !.ops = @ + 1, !.hasObj = TRUE, !.obj = getDefaultMFs,
                          !.origin = "get", !.installed = FALSE,
                          !.shared = getDefaultMFsShares,
                          !.last = [op |-> "get", pre |-> Config]]
  /\ UNCHANGED <<speedMFs, distanceMFs, brakeMFs>>
  /\ CtlFrame

\* setMemberships(obj): the module keeps the arrays it is given
CtlSet ==
  /\ CtlReady
  /\ hist.hasObj
  /\ LET c == setMemberships(hist.obj)
     IN /\ speedMFs' = c.Speed
        /\ distanceMFs' = c.Distance
        /\ brakeMFs' = c.Brake
  /\ hist' = [hist EXCEPT !.ops = @ + 1, !.installed = TRUE,
                          !.shared = DOMAIN hist.obj,
                          !.last = [op |-> "set", pre |-> Config],
                          !.first = NoOp]
  /\ CtlFrame

\* a caller of the exported functions writes in place into the object it
\* holds; an array shared with the module is the same array
CtlMutate(m) ==
  /\ CtlReady
  /\ hist.hasObj
  /\ m.group \in DOMAIN hist.obj
  /\ Len(hist.obj[m.group]) >= Max(1, m.mf)
  /\ LET o == Mutated(hist.obj, m)
         seen(g, own) == IF g \in hist.shared THEN o[g] ELSE own
     IN /\ hist' = [hist EXCEPT !.ops = @ + 1, !.obj = o,
                                !.last = [op |-> "mutate", pre |-> Config,
                                          fresh |-> hist.origin = "get" /\ ~hist.installed]]
        /\ speedMFs' = seen("Speed", speedMFs)
        /\ distanceMFs' = seen("Distance", distanceMFs)
        /\ brakeMFs' = seen("Brake", brakeMFs)
  /\ CtlFrame

\* FuzzyTuner.updateParam(group, mfIdx, paramIdx, v): the write goes into a
\* deep copy of the object held so far, and the copy becomes the caller's
\* object; it shares no array with the module
updateParam(m) ==
  /\ CtlReady
  /\ hist.hasObj
  /\ m.mf > 0
  /\ m.group \in DOMAIN hist.obj
  /\ Len(hist.obj[m.group]) >= m.mf
  /\ hist' = [hist EXCEPT !.ops = @ + 1, !.obj = Mutated(JsonCopyAll(hist.obj), m),
                          !.origin = "copy", !.installed = FALSE, !.shared = {},
                          !.last = [op |-> "update", pre |-> Config]]
  /\ UNCHANGED <<speedMFs, distanceMFs, brakeMFs>>
  /\ CtlFrame

\* getBrakePercent(speed, distance)
CtlInfer(speed, distance) ==
  /\ CtlReady
  /\ LET call == [op |-> "infer", pre |-> Config, speed |-> speed,
                  distance |-> distance, out |-> getBrakePercent(speed, distance)]
     IN hist' = [hist EXCEPT !.ops = @ + 1, !.last = call,
                             !.first = IF pc = "use" /\ @ = NoOp THEN call ELSE @]
  /\ UNCHANGED <<speedMFs, distanceMFs, brakeMFs>>
  /\ CtlFrame

\* evalMF on a membership function of the caller's object
CtlEval(g, i, x) ==
  /\ CtlReady
  /\ hist.hasObj
  /\ g \in DOMAIN hist.obj
  /\ i \in DOMAIN hist.obj[g]
  /\ hist' = [hist EXCEPT !.ops = @ + 1,
                          !.last = [op |-> "eval", pre |-> Config, mf |-> hist.obj[g][i],
                                    x |-> x, out |-> evalMF(hist.obj[g][i], x)]]
  /\ UNCHANGED <<speedMFs, distanceMFs, brakeMFs>>
  /\ CtlFrame

NextCtl ==
  \/ \E o \in CallerObjects : CtlMake(o)
  \/ CtlGet
  \/ CtlSet
  \/ \E m \in Mutations : CtlMutate(m)
  \/ \E m \in Mutations : updateParam(m)
  \/ \E in \in CtlInputs : CtlInfer(in[1], in[2])
  \/ \E g \in {"Speed", "Distance", "Brake"}, i \in 1..3, x \in EvalPoints : CtlEval(g, i, x)

SpecCtl == InitCtl /\ [][NextCtl]_vars

\* -------------------------------------- the controller after installation
\* The caller has built one of its objects and passed it to setMemberships,
\* which SpecCtl reaches in two operations; it goes on from there with a
\* fresh count of operations, and may also call computeBrakeWithMFs on the
\* object it holds.
InitUse ==
  /\ params = DefaultParams
  /\ simRunning = FALSE
  /\ ui = [stopReason |-> "none", visibleStop |-> "none",
           stopFinalized |-> FALSE, lastShownPriority |-> 0]
  /\ react = Committed(params, simRunning, ui)
  /\ tuner = TunerClosed
  /\ \E o \in CallerObjects :
       /\ speedMFs = IF "Speed" \in DOMAIN o THEN o.Speed ELSE DefaultSpeedMFs
       /\ distanceMFs = IF "Distance" \in DOMAIN o THEN o.Distance ELSE DefaultDistanceMFs
       /\ brakeMFs = IF "Brake" \in DOMAIN o THEN o.Brake ELSE DefaultBrakeMFs
       /\ hist = [ops |-> 0, hasObj |-> TRUE, obj |-> o, origin |-> "caller",
                  installed |-> TRUE, shared |-> DOMAIN o,
                  last |-> [op |-> "set",
                            pre |-> [Speed |-> DefaultSpeedMFs,
                                     Distance |-> DefaultDistanceMFs,
                                     Brake |-> DefaultBrakeMFs]],
                  first |-> NoOp]
  /\ state = createDefaultState
  /\ rafRef = "null"
  /\ loop = [accumulator |-> 0, timeScale |-> 10,
             capFinalized |-> FALSE, capPriority |-> 0, below |-> FALSE]
  /\ pc = "use"
  /\ logger = << >>

\* computeBrakeWithMFs(obj, speed, distance) on the caller's object
CtlCompute(speed, distance) ==
  /\ CtlReady
  /\ pc = "use"
  /\ hist.hasObj
  /\ CtlGroups \subseteq DOMAIN hist.obj
  /\ LET call == [op |-> "compute", pre |-> Config, mfs |-> hist.obj,
                  speed |-> speed, distance |-> distance,
                  out |-> computeBrakeWithMFs(hist.obj, speed, distance)]
     IN hist' = [hist EXCEPT !.ops = @ + 1, !.last = call]
  /\ UNCHANGED <<speedMFs, distanceMFs, brakeMFs>>
  /\ CtlFrame

\* the inputs tried after installation: one rule firing, several rules
\* firing on one output, two outputs active
UseInputs == { <<5000, 200>>, <<1000, 1600>>, <<7000, 1300>> }

\* the objects the caller builds after installation: the complete ones with
\* the Beginner and the symmetric output functions
UseObjects ==
  {o \in CallerObjects :
     CtlGroups \subseteq DOMAIN o /\ o.Brake \in {SymmetricBrake, PresetBrake("Beginner")}}

NextUse ==
  \/ \E o \in UseObjects : CtlMake(o)
  \/ CtlSet
  \/ \E m \in Mutations : CtlMutate(m)
  \/ \E m \in Mutations : updateParam(m)
  \/ \E in \in UseInputs : CtlInfer(in[1], in[2])
  \/ \E in \in UseInputs : CtlCompute(in[1], in[2])

SpecUse == InitUse /\ [][NextUse]_vars

\* ------------------------------------------ properties of the scheduler
\* the sample onPhysicsStep pushes for state s once the controller has answered
SampleOf(s) ==
  [t |-> s.t, x |-> s.x, v |-> s.v, a |-> s.a, brake |-> s.lastBrakePercent,
   distance |-> Max(0, s.obstaclePosition - s.x)]

\* C1: in one run the end-observer onEnd is invoked exactly once if some
\* physicsStep returned a terminal reason, with exactly that reason (which the
\* observer stores as stopReason while clearing simRunning), and it is not
\* invoked in a run where no step returned one (a run paused or reset first).
C1_EndObserverOncePerTerminalRun ==
  /\ hist.endCalls = (IF hist.runTerminal # "none" THEN 1 ELSE 0)
  /\ hist.endReason = hist.runTerminal
  /\ hist.runTerminal # "none" => ui.stopReason = hist.runTerminal /\ ~simRunning

\* a second run that ended, its observer called once for it
C1_Witness ==
  /\ hist.starts = 2
  /\ hist.runTerminal = "rest" /\ hist.endCalls = 1 /\ ui.stopReason = "rest"

\* C2: when a physicsStep returns a terminal reason inside a frame, onStep has
\* run for that step (its sample is the last one logged and the controller's
\* answer is in the state), onEnd has been called with the reason, no further
\* physicsStep follows in that frame even if the accumulator still holds at
\* least dt, rafRef is null and no frame is scheduled.
C2_TerminalStepEndsFrame ==
  hist.runTerminal # "none" =>
    /\ hist.last.reason = hist.runTerminal
    /\ state = [hist.last.post EXCEPT !.lastBrakePercent = state.lastBrakePercent]
    /\ Len(logger) = hist.runSteps
    /\ logger[Len(logger)] = SampleOf(state)
    /\ hist.endCalls = 1 /\ hist.endReason = hist.runTerminal
    /\ pc = "idle"
    /\ rafRef = "null"

\* a terminal step that left at least one dt in the accumulator
C2_Witness ==
  /\ hist.runTerminal # "none"
  /\ loop.accumulator >= state.dt
  /\ pc = "idle" /\ rafRef = "null"

\* floor(accumulator / dt) for the double the loop of this frame started
\* from: one less than the grid shows where the double is short of a whole
\* multiple of dt
FloorOfAccumulator ==
  IF hist.frameBelow THEN hist.frameAcc0 \div state.dt - 1
  ELSE hist.frameAcc0 \div state.dt

\* C3: when stepping begins in a frame the accumulator is at most the cap
\* (0.1 s), each step takes one dt from it, and a frame in which no step was
\* terminal made floor(accumulator / dt) physicsStep calls, for the capped
\* accumulator.
C3_CatchUpBound ==
  /\ hist.frameAcc0 <= MaxAccum
  /\ pc = "loop" => loop.accumulator = hist.frameAcc0 - hist.frameSteps * state.dt
  /\ hist.frameDone => hist.frameSteps = FloorOfAccumulator

\* C3 amended: when stepping begins in a frame the accumulator is at most
\* the cap, each step takes one dt from it, and a frame in which no step was
\* terminal made floor(accumulator / dt) physicsStep calls or one more than
\* that, never more than twelve; it made one more only where the accumulator
\* was a rounding error short of a whole multiple k * dt with k one of 5, 6,
\* 7, 9, 10, 11, 12 (there the rounded subtractions bring the double next
\* below k * dt down to dt itself, and the loop makes k steps).
C3_CatchUpBoundRounded ==
  /\ hist.frameAcc0 <= MaxAccum
  /\ pc = "loop" => loop.accumulator = hist.frameAcc0 - hist.frameSteps * state.dt
  /\ hist.frameDone =>
       \/ hist.frameSteps = FloorOfAccumulator
       \/ /\ hist.frameBelow
          /\ (hist.frameAcc0 \div state.dt) \in {5, 6, 7, 9, 10, 11, 12}
          /\ hist.frameSteps = FloorOfAccumulator + 1
  /\ hist.frameDone => hist.frameSteps <= MaxAccum \div state.dt

\* a frame that brought the accumulator a rounding error short of 12 dt,
\* below the cap, and made twelve steps
C3_Witness ==
  /\ hist.frameDone
  /\ hist.frameBelow
  /\ hist.frameAcc0 = 12 * state.dt
  /\ hist.frameSteps = 12
  /\ hist.runTerminal = "none"

Stepped == hist.runSteps > 0
Pre == hist.last.pre
Post == hist.last.post
Returned == hist.last.reason
\* v + a*dt and x + (v + a*dt)*dt of the latest step
NewV == Pre.v + hist.last.a
NewX == Pre.x + NewV
TimeAdvanced == Post.t = Pre.t + Pre.dt

\* C5 as stated: after a step that returns Eject, v = 0 and a = 0, t has
\* advanced by exactly dt, x is unchanged and stopDetails = {cause: decel,
\* decel, decelThreshold} with decel >= decelThreshold.
C5_EjectZeroesVelocityAndAcceleration ==
  (Stepped /\ Returned = "eject") =>
    /\ Post.v = 0 /\ Post.a = 0
    /\ TimeAdvanced
    /\ Post.x = Pre.x
    /\ Post.stopDetails.cause = "decel"
    /\ Post.stopDetails.decelThreshold = Pre.ejectAccelThreshold
    /\ Post.stopDetails.decel * 3 >= Post.stopDetails.decelThreshold * 1000

\* C5 amended: after a step that returns Eject, v = 0, a is the acceleration
\* the step computed (not 0), t has advanced by exactly dt, x is unchanged and
\* stopDetails = {cause: decel, decel, decelThreshold} with
\* decel >= decelThreshold, decel being -a when v > 0 and a < 0 before the
\* step and 0 otherwise.  With a positive threshold a is therefore -decel, a
\* negative value; with a threshold of 0 or less a step with t > 0 ejects
\* whatever it computed, also with decel = 0 and a of either sign.
C5_EjectKeepsAcceleration ==
  /\ (Stepped /\ Returned = "eject") =>
       /\ Post.v = 0
       /\ Post.a = hist.last.a
       /\ TimeAdvanced
       /\ Post.x = Pre.x
       /\ Post.stopDetails.cause = "decel"
       /\ Post.stopDetails.decel = (IF Pre.v > 0 /\ hist.last.a < 0 THEN -hist.last.a ELSE 0)
       /\ Post.stopDetails.decelThreshold = Pre.ejectAccelThreshold
       /\ Post.stopDetails.decel * 3 >= Post.stopDetails.decelThreshold * 1000
       /\ Pre.ejectAccelThreshold > 0 =>
            Post.a = -Post.stopDetails.decel /\ Post.a < 0 /\ Pre.v > 0
  /\ (Stepped /\ Pre.t > 0 /\ Pre.ejectAccelThreshold <= 0 /\ hist.last.path # "static") =>
       Returned = "eject"

\* an ejection by a real deceleration, with a positive threshold
C5_Witness ==
  /\ Stepped /\ Returned = "eject"
  /\ Pre.ejectAccelThreshold > 0
  /\ Post.stopDetails.decel > 0 /\ Post.a < 0

\* C6: a step called with t = 0 never returns Eject; for t > 0 and a positive
\* threshold, a step that is not a static-regime Rest returns Eject if and
\* only if v > 0, a < 0 and -a >= ejectAccelThreshold, whatever the zero
\* crossing test and the obstacle test of the same step would have said.
C6_EjectExactlyOnDeceleration ==
  Stepped =>
    /\ Pre.t = 0 => Returned # "eject"
    /\ (Pre.t > 0 /\ Pre.ejectAccelThreshold > 0 /\ hist.last.path # "static") =>
         (Returned = "eject" <=>
            (Pre.v > 0 /\ hist.last.a < 0
             /\ (-hist.last.a) * 3 >= Pre.ejectAccelThreshold * 1000))

\* an ejection in a step whose integration would have reached the obstacle
C6_Witness ==
  /\ Stepped /\ Returned = "eject"
  /\ Pre.t > 0 /\ Pre.ejectAccelThreshold > 0
  /\ NewV > VelTol /\ NewX >= Pre.obstaclePosition

\* C7 as stated: in the moving regime (|v| > tolerance before the step) with
\* no ejection, the step returns Rest if and only if v + a*dt has crossed zero
\* (its sign differs from the sign of v) or lies within tolerance of zero; then
\* v = 0, a = 0, x is as before and t advanced by dt; a step that continues
\* accepts the new velocity and advances x by it.
C7_RestIffCrossedOrWithinTolerance ==
  (Stepped /\ Abs(Pre.v) > VelTol /\ Returned # "eject") =>
    /\ Returned = "rest" <=> (Sign(NewV) # Sign(Pre.v) \/ Abs(NewV) <= VelTol)
    /\ Returned = "rest" =>
         Post.v = 0 /\ Post.a = 0 /\ Post.x = Pre.x /\ TimeAdvanced
    /\ Returned = "none" => Post.v = NewV /\ Post.x = Pre.x + NewV

\* a step taken at a negative velocity beyond tolerance, left beyond tolerance
\* and negative by the update, and answered with Rest
C7_Witness ==
  /\ Stepped /\ Returned = "rest"
  /\ Pre.v < -VelTol /\ NewV < -VelTol
  /\ Post.v = 0 /\ Post.x = Pre.x

\* C8: in the static regime (|v| <= tolerance before the step) the step
\* returns Rest by the static check if and only if |F_gravity| <= F_roll +
\* F_brake; then v = 0, a = 0, x is unchanged and t advanced by exactly dt.
C8_StaticRestIffHeld ==
  (Stepped /\ Abs(Pre.v) <= VelTol) =>
    /\ hist.last.path = "static" <=>
         Abs(F_gravity(Pre)) <= F_roll(Pre) + F_brake_mag(Pre)
    /\ hist.last.path = "static" =>
         /\ Returned = "rest"
         /\ Post.v = 0 /\ Post.a = 0 /\ Post.x = Pre.x /\ TimeAdvanced

\* a static rest on a slope that rolling resistance alone would not hold
C8_Witness ==
  /\ Stepped /\ Abs(Pre.v) <= VelTol /\ hist.last.path = "static"
  /\ Abs(F_gravity(Pre)) > F_roll(Pre)

\* C9: a step returns Obstacle exactly when it integrated the position (it
\* returned neither Rest nor Eject) and the new x >= obstaclePosition;
\* afterwards x = obstaclePosition, v = 0 and a = 0.
C9_ObstacleExactlyOnReach ==
  Stepped =>
    /\ Returned = "obstacle" <=>
         (Returned \notin {"rest", "eject"} /\ NewX >= Pre.obstaclePosition)
    /\ Returned = "obstacle" =>
         Post.x = Post.obstaclePosition /\ Post.v = 0 /\ Post.a = 0

\* a collision that overshot the obstacle, so that the clamp moved x back
C9_Witness ==
  /\ Stepped /\ Returned = "obstacle"
  /\ NewX > Pre.obstaclePosition /\ NewV > VelTol

\* C10: in a run that starts at x = 0 with obstaclePosition >= 0, after any
\* number of steps 0 <= x <= obstaclePosition.
C10_PositionOnTrack == 0 <= state.x /\ state.x <= state.obstaclePosition

\* the second step of a run reaches the obstacle from a position on the way
C10_Witness ==
  /\ hist.runSteps >= 2 /\ Returned = "obstacle"
  /\ 0 < Pre.x /\ Pre.x < state.obstaclePosition
  /\ state.x = state.obstaclePosition

\* C11: every physicsStep advances t by exactly dt whatever its outcome
\* (continue, static Rest, crossing Rest, Eject, Obstacle), so t never
\* decreases and is the t the stepping began with plus dt times the number of
\* steps executed (dt times that number when it began at t = 0).
C11_TimeAdvancesByDtEveryStep ==
  /\ state.dt = DtTicks
  /\ state.t = hist.t0 + DtTicks * hist.runSteps
  /\ Stepped =>
       /\ Post.t = Pre.t + Pre.dt
       /\ hist.last.path \in {"continue", "static", "cross", "eject", "obstacle"}

\* three steps from t = 0, the last of them a Rest by zero crossing
C11_Witness ==
  /\ hist.t0 = 0 /\ hist.runSteps = 3 /\ state.t = 3 * DtTicks
  /\ hist.last.path = "cross"

\* ------------------------------------ properties of the controller (SpecCtl)
Last == hist.last
Inferred == pc = "ctl" /\ Last.op = "infer"

\* a <= b <= c (<= d) for every membership function of the list
MonotoneMF(mf) ==
  \A j \in 1..(Len(mf.params) - 1) : mf.params[j] <= mf.params[j + 1]
Monotone(list) == \A i \in DOMAIN list : MonotoneMF(list[i])

\* the degree of rule k for the inputs of the last inference
RuleDegree(k) ==
  Min(DegOf(speedMFs, rules[k].speed, Last.speed),
      DegOf(distanceMFs, rules[k].dist, Last.distance))
\* the output functions with positive aggregated activation
ActiveOutputs ==
  {i \in DOMAIN brakeMFs :
     \E k \in DOMAIN rules : rules[k].brake = brakeMFs[i].name /\ RuleDegree(k) > 0}

\* C12: for every speed >= 0, distance >= 0 and every configuration whose
\* membership functions have monotone breakpoints, getBrakePercent returns a
\* value in [0, 1].
C12_BrakePercentInUnitRange ==
  (Inferred /\ Last.speed >= 0 /\ Last.distance >= 0
     /\ Monotone(speedMFs) /\ Monotone(distanceMFs) /\ Monotone(brakeMFs)) =>
    (0 <= Last.out /\ Last.out <= BrakeScale)

\* an inference under an installed configuration whose only active output
\* function peaks outside [0, 1]
C12_Witness ==
  /\ Inferred /\ hist.installed
  /\ ActiveOutputs # {}
  /\ \A i \in ActiveOutputs : brakeMFs[i].params[2] > BrakeScale
  /\ Last.out > 0

\* C13: with the default configuration getBrakePercent(0, 0) is 0.5 within
\* 1/200, only the Close-and-Low -> Moderate rule firing, at full strength.
C13_StandstillAtObstacleIsHalf ==
  (Inferred /\ Last.speed = 0 /\ Last.distance = 0
     /\ speedMFs = DefaultSpeedMFs /\ distanceMFs = DefaultDistanceMFs
     /\ brakeMFs = DefaultBrakeMFs) =>
    /\ Abs(Last.out - 500) <= 5
    /\ \A k \in DOMAIN rules :
         RuleDegree(k) = (IF rules[k].dist = "Close" /\ rules[k].speed = "Low"
                          THEN DegScale ELSE 0)

\* the default configuration asked for speed 0 at distance 0
C13_Witness ==
  /\ Inferred /\ Last.speed = 0 /\ Last.distance = 0
  /\ speedMFs = DefaultSpeedMFs /\ distanceMFs = DefaultDistanceMFs
  /\ brakeMFs = DefaultBrakeMFs
  /\ Last.out = 0
  /\ \A k \in DOMAIN rules : RuleDegree(k) = 0

\* C14: whenever no rule has activation above zero getBrakePercent returns
\* exactly 0, never NaN; with the default configuration
\* getBrakePercent(15, 50) = 0.
C14_NoRuleFiredGivesZero ==
  /\ (Inferred /\ \A k \in DOMAIN rules : RuleDegree(k) <= 0) => Last.out = 0
  /\ (Inferred /\ Last.speed = 15000 /\ Last.distance = 5000
        /\ speedMFs = DefaultSpeedMFs /\ distanceMFs = DefaultDistanceMFs
        /\ brakeMFs = DefaultBrakeMFs) => Last.out = 0

\* getBrakePercent(15, 50) under the default configuration
C14_Witness ==
  /\ Inferred /\ Last.speed = 15000 /\ Last.distance = 5000
  /\ speedMFs = DefaultSpeedMFs /\ distanceMFs = DefaultDistanceMFs
  /\ brakeMFs = DefaultBrakeMFs
  /\ \A k \in DOMAIN rules : RuleDegree(k) = 0
  /\ Last.out = 0

\* exactly one output function is active and it is a symmetric triangle
\* inside [0, 1]
OneSymmetricActive ==
  /\ Inferred
  /\ Cardinality(ActiveOutputs) = 1
  /\ \A i \in ActiveOutputs :
       /\ brakeMFs[i].type = "tri"
       /\ brakeMFs[i].params[2] - brakeMFs[i].params[1]
            = brakeMFs[i].params[3] - brakeMFs[i].params[2]
       /\ 0 <= brakeMFs[i].params[1] /\ brakeMFs[i].params[3] <= BrakeScale
\* some sample point i/samples lies strictly inside the support of function i
SampledInside(i) ==
  \E n \in 0..Samples :
    brakeMFs[i].params[1] < SampleX(n) /\ SampleX(n) < brakeMFs[i].params[3]

\* C15: when exactly one output function has positive aggregated activation
\* and it is a symmetric triangle inside [0, 1], getBrakePercent returns its
\* peak b within 1/200, for every activation level in (0, 1].
C15_SymmetricTrianglePeak ==
  OneSymmetricActive =>
    \A i \in ActiveOutputs : Abs(Last.out - brakeMFs[i].params[2]) <= 5

\* C15 amended: under the same condition, getBrakePercent returns the peak b
\* within 1/200 if one of the sample points i/200 lies strictly inside
\* (a, c), and returns 0 if none does.
C15_SymmetricTrianglePeakWhenSampled ==
  OneSymmetricActive =>
    \A i \in ActiveOutputs :
      IF SampledInside(i)
      THEN Abs(Last.out - brakeMFs[i].params[2]) <= 5
      ELSE Last.out = 0

\* a symmetric triangle alone, clipped below full strength, between sample
\* points on one side and on them on the other
C15_Witness ==
  /\ OneSymmetricActive
  /\ \A i \in ActiveOutputs :
       /\ SampledInside(i)
       /\ \E k \in DOMAIN rules : RuleDegree(k) > 0 /\ RuleDegree(k) < DegScale
       /\ Last.out = brakeMFs[i].params[2]
       /\ brakeMFs[i].params[2] = 800

\* C16: for every triangular or trapezoidal membership function with
\* a <= b <= c (<= d), the degenerate cases a = b, b = c, c = d and a = b = c
\* included, and for every input x, evaluation divides by no zero and returns
\* a value in [0, 1], never NaN or infinite.
C16_EvaluationTotalInUnitRange ==
  (pc = "ctl" /\ Last.op = "eval" /\ MonotoneMF(Last.mf)) =>
    /\ Last.out # NotANumber
    /\ 0 <= Last.out /\ Last.out <= DegScale

\* a function with a = b = c evaluated at that point, a trapezoid with
\* a = b and c = d on its plateau
C16_Witness ==
  /\ pc = "ctl" /\ Last.op = "eval"
  /\ \/ /\ Last.mf.type = "tri"
        /\ Last.mf.params[1] = Last.mf.params[3] /\ Last.x = Last.mf.params[1]
        /\ Last.out = 0
     \/ /\ Last.mf.type = "trap"
        /\ Last.mf.params[1] = Last.mf.params[2] /\ Last.mf.params[3] = Last.mf.params[4]
        /\ Last.mf.params[1] < Last.x /\ Last.x < Last.mf.params[4]
        /\ Last.out = DegScale

\* C17: mutating the object returned by getDefaultMFs (a variable's list, a
\* membership function's params) changes nothing of the configuration in
\* effect: the three variables, hence every later getBrakePercent and
\* getDefaultMFs result, are what they were.  (The object meant is the one
\* getDefaultMFs returned, not yet handed to setMemberships.)
C17_ReturnedObjectIsACopy ==
  /\ (pc = "ctl" /\ Last.op = "get") =>
        /\ hist.obj = Last.pre /\ Config = Last.pre
  /\ (pc = "ctl" /\ Last.op = "mutate" /\ Last.fresh) =>
        /\ Config = Last.pre
        /\ getDefaultMFs = Last.pre

\* the returned object was changed and the configuration was not
C17_Witness ==
  /\ pc = "ctl" /\ Last.op = "mutate" /\ Last.fresh
  /\ hist.obj.Brake # brakeMFs
  /\ Config = Last.pre

\* C18: after setMemberships(obj) the Speed, Distance and Brake variables in
\* effect are all exactly those of obj, none retained from the configuration
\* before.
C18_SetReplacesWhole ==
  (pc = "ctl" /\ Last.op = "set") =>
    \A g \in CtlGroups : g \in DOMAIN hist.obj /\ Config[g] = hist.obj[g]

\* C18 amended: after setMemberships(obj) each of Speed, Distance and Brake
\* that obj carries is exactly obj's, and each one obj does not carry is
\* retained from the configuration before.
C18_SetReplacesWhatIsCarried ==
  (pc = "ctl" /\ Last.op = "set") =>
    \A g \in CtlGroups :
      Config[g] = (IF g \in DOMAIN hist.obj THEN hist.obj[g] ELSE Last.pre[g])

\* an object carrying Speed and Distance only was set: both are in effect,
\* Brake is the one from before
C18_Witness ==
  /\ pc = "ctl" /\ Last.op = "set"
  /\ DOMAIN hist.obj = {"Speed", "Distance"}
  /\ speedMFs = hist.obj.Speed /\ speedMFs # Last.pre.Speed
  /\ distanceMFs = hist.obj.Distance /\ distanceMFs # Last.pre.Distance
  /\ brakeMFs = Last.pre.Brake

\* ---------------------------------------- properties of the App (Spec)
\* the step that starts a run: handleStart with simRunning false
RunStarts == ~simRunning /\ simRunning'

\* C19: at the beginning of every run (each handleStart that starts a loop,
\* after a run that ended or was paused, or after a reset) the dynamic fields
\* are fresh: t = 0, x = 0, a = 0, lastBrakePercent = 0, stopDetails empty,
\* and v is the operator's initial speed.
C19_RunStartsFresh ==
  [][RunStarts =>
       /\ state'.t = 0 /\ state'.x = 0
       /\ state'.a = 0 /\ state'.lastBrakePercent = 0
       /\ state'.stopDetails = NoDetails
       /\ state'.v = params'.initialSpeed]_vars

\* a second run about to take its first step with the acceleration and the
\* brake percent the paused run left
C19_Witness ==
  /\ simRunning /\ hist.starts = 2 /\ hist.runSteps = 0
  /\ state.t = 0 /\ state.x = 0 /\ state.v = params.initialSpeed
  /\ state.a < 0 /\ state.lastBrakePercent > 0

\* C20: at the beginning of every run, after any sequence of parameter
\* changes, preset selections, starts, pauses and resets, every parameter of
\* the SimulationState (mass, mu, theta, c_roll, obstaclePosition,
\* ejectAccelThreshold) is the operator's currently chosen value.
C20_RunStartsWithChosenParameters ==
  [][RunStarts =>
       /\ state'.mass = params'.mass
       /\ state'.mu = params'.mu
       /\ state'.theta = -params'.inclineDeg
       /\ state'.c_roll = params'.rollingResistance
       /\ state'.obstaclePosition = params'.obstaclePosition
       /\ state'.ejectAccelThreshold = params'.ejectAccelThreshold]_vars

\* after the Beginner preset and a reset: the state the next start will run
\* with holds the engine's default threshold, not the preset's
C20_Witness ==
  /\ ~simRunning /\ pc = "idle" /\ hist.starts < MaxStarts
  /\ logger = << InitialSample(state) >>
  /\ params.ejectAccelThreshold = PresetThreshold("Beginner")
  /\ state.ejectAccelThreshold = createDefaultState.ejectAccelThreshold
  /\ state.ejectAccelThreshold # params.ejectAccelThreshold

\* the recorder holds exactly the sample handleReset pushes: the state is
\* as a reset left it
JustReset == logger = << InitialSample(state) >>

\* C21: a reset invoked right after a reset changes no field of the
\* SimulationState the first one produced, and the recorder holds the same
\* single initial sample: what a reset produces is the fresh state for the
\* operator's parameters (as rendered, which is how the handler reads them),
\* whatever the state before.
C21_ResetTwiceSameState ==
  JustReset =>
    /\ ResetState(react.params) = state
    /\ << InitialSample(ResetState(react.params)) >> = logger
    /\ state.t = 0 /\ state.x = 0 /\ state.a = 0 /\ state.lastBrakePercent = 0
    /\ state.v = react.params.initialSpeed
    /\ state.stopDetails = NoDetails
    /\ ~simRunning /\ rafRef = "null"

\* a reset after a run that moved, with the initial speed changed from the
\* engine's default
C21_Witness ==
  /\ JustReset
  /\ hist.starts >= 1
  /\ state.v # createDefaultState.v
  /\ ResetState(react.params) = state

\* no physicsStep (every step advances t), no onStep (every call pushes a
\* sample) and no onEnd (every call stores the stop reason) in this step
NothingRuns ==
  /\ state' = state
  /\ logger' = logger
  /\ ui'.stopReason = ui.stopReason
  /\ pc' = pc

\* a run that was paused after some step and has not been started or reset
\* since, nor had a parameter changed
Paused == ~simRunning /\ hist.runSteps >= 1 /\ hist.runTerminal = "none"

\* C22: after pause (stopLoop) no physicsStep, no onStep and no onEnd occurs
\* and the SimulationState is unchanged until the next start or reset; the
\* pause itself happens between frames, on a state produced by a complete
\* step, and changes nothing of it.
C22_PausedUntilStartOrReset ==
  [][/\ (Paused /\ ~handleStart /\ ~handleReset) => NothingRuns
     /\ handlePause => (pc = "idle" /\ NothingRuns)]_vars

\* C22 amended: after pause no physicsStep, no onStep and no onEnd occurs,
\* and the SimulationState is unchanged until the next start, reset or
\* change of a parameter (which, rendered while the run is not in progress,
\* rewrites the parameters in the state and zeroes x and t, without
\* stepping); the pause itself happens between frames and changes nothing of
\* the state.
C22_PausedUntilStartResetOrEdit ==
  [][/\ (Paused /\ ~handleStart /\ ~handleReset /\ react'.params = react.params) =>
          NothingRuns
     /\ (Paused /\ ~handleStart /\ ~handleReset) =>
          /\ ui'.stopReason = ui.stopReason /\ pc' = pc
          /\ state'.a = state.a /\ state'.lastBrakePercent = state.lastBrakePercent
          /\ state' # state => (state'.t = 0 /\ state'.x = 0 /\ logger' = << >>)
     /\ handlePause => (pc = "idle" /\ NothingRuns)]_vars

\* a run paused after a step, before any terminal step
C22_Witness ==
  /\ ~simRunning /\ rafRef = "null" /\ pc = "idle"
  /\ hist.runSteps >= 1 /\ hist.runTerminal = "none"
  /\ state.t = hist.runSteps * DtTicks /\ state.x > 0
  /\ Len(logger) = hist.runSteps

\* ------------------------------------------------- fixed-brake scenarios
Coasting == pc = "fixed" /\ state.lastBrakePercent = 0
\* steps within which a board that keeps more than 5 m/s covers the 20 m
CoastSteps == (20 * PosPerM) \div (5 * VelPerMs)

\* C23: with the brake intensity fixed at 0 (theta 0, mass 70, c_roll 0.01,
\* v 6, obstacle at 20, x 0) repeated physicsStep calls return null until one
\* returns Obstacle: none returns Rest or Eject, the board keeps more than
\* 5 m/s short of the obstacle, and the run is over within CoastSteps steps
\* with the board stopped at the obstacle.
C23_CoastingEndsAtObstacle ==
  Coasting =>
    /\ hist.runTerminal \in {"none", "obstacle"}
    /\ hist.runTerminal = "none" =>
         /\ state.x < state.obstaclePosition
         /\ state.v > 5 * VelPerMs
         /\ hist.runSteps < CoastSteps
         /\ state.stopDetails = NoDetails
    /\ hist.runTerminal = "obstacle" =>
         /\ state.x = state.obstaclePosition /\ state.v = 0
         /\ Pre.x < Pre.obstaclePosition

\* the coasting run has hit the obstacle after some hundred steps
C23_Witness ==
  /\ Coasting /\ hist.runTerminal = "obstacle" /\ hist.runSteps > 100
  /\ state.x = 20 * PosPerM /\ state.t = hist.runSteps * DtTicks

FullBrake ==
  /\ pc = "fixed" /\ state.lastBrakePercent = BrakeScale
  /\ state.ejectAccelThreshold = 10

\* C24: with the brake intensity fixed at 1 and the ejection threshold at
\* 1 m/s^2 (theta 0, mass 70, mu 0.7, c_roll 0.01, v 6) the first step, taken
\* at t = 0, returns null and records no stop details; the second step, the
\* first with t > 0, returns Eject with stopDetails.decel = g * (mu + c_roll)
\* and stopDetails.decelThreshold = 1.
C24_FullBrakeEjectsOnSecondStep ==
  FullBrake =>
    /\ hist.runSteps = 1 =>
         /\ Pre.t = 0 /\ Returned = "none"
         /\ state.stopDetails = NoDetails /\ state.v > 0
    /\ hist.runSteps = 2 =>
         /\ Pre.t > 0 /\ Returned = "eject"
         /\ state.stopDetails.cause = "decel"
         /\ state.stopDetails.decel * 1000 = GUnits * (10 * Pre.mu + Pre.c_roll)
         /\ state.stopDetails.decelThreshold = 10
    /\ hist.runSteps <= 2

\* the second step of the full-brake run has returned Eject
C24_Witness ==
  /\ FullBrake /\ hist.runSteps = 2 /\ hist.runTerminal = "eject"
  /\ state.stopDetails.decel > 0 /\ state.v = 0

\* ------------------------------------------------------- stop details
Ended == hist.endCalls >= 1
EarlierEject == ui.visibleStop = "eject" /\ hist.starts = MaxStarts

\* C25: when onEnd(reason) is delivered, and from then until the next start,
\* reset or parameter change, stopDetails is populated exactly if reason is
\* Eject, and then with the deceleration that reached the threshold; after a
\* run that ended in Rest or Obstacle it is empty, also when an earlier run
\* ended in Eject.
C25_StopDetailsIffEject ==
  /\ Ended => (state.stopDetails # NoDetails <=> hist.endReason = "eject")
  /\ (Ended /\ hist.endReason = "eject") =>
       /\ state.stopDetails.cause = "decel"
       /\ DecelReaches(state.stopDetails.decel, state.stopDetails.decelThreshold)
  /\ simRunning => state.stopDetails = NoDetails

\* a run has ended in Rest with empty stopDetails while the notice of the
\* earlier run's ejection is still shown
C25_Witness ==
  /\ Ended /\ hist.endReason = "rest" /\ EarlierEject
  /\ state.stopDetails = NoDetails /\ ~simRunning

\* ------------------------------------------------ controller in the loop
\* the controller's output for the state a step starts from
ControllerOutput(s) == getBrakePercent(ControllerSpeed(s), ControllerDistance(s))

\* C26: the brake intensity a physicsStep consumes is the fuzzy engine's
\* output for the speed |v| and the distance max(0, obstaclePosition - x) of
\* the state the step starts from, for every step of a run including the
\* first.
C26_StepConsumesControllerOutput ==
  (pc \in {"idle", "loop"} /\ Stepped) =>
     Pre.lastBrakePercent = ControllerOutput(Pre)

\* ----------------------------------------------------------- brake force
ControllerDriven == pc \in {"idle", "loop"}
Clamp01(b) == IF b < 0 THEN 0 ELSE IF b > BrakeScale THEN BrakeScale ELSE b
\* clamp(value, 0, 1) * mu * N
ClampedBrakeForce(s) == MulDiv(F_maxBrake(s), Clamp01(s.lastBrakePercent), BrakeScale)
Moving(s) == Abs(s.v) > VelTol

\* C27: in every state of a run driven by the fuzzy controller the stored
\* lastBrakePercent lies in [0, 1]; and whatever value a step finds stored
\* (below 0, above 1 or in range), the brake force in the acceleration it
\* computes for a moving board is clamp(value, 0, 1) * mu * N, opposing the
\* motion, which lies in [0, mu * N].
C27_BrakeForceClamped ==
  /\ ControllerDriven =>
       (state.lastBrakePercent >= 0 /\ state.lastBrakePercent <= BrakeScale)
  /\ (Stepped /\ Moving(Pre)) =>
       /\ hist.last.a =
            Quot(F_gravity(Pre) - Sign(Pre.v) * F_roll(Pre)
                   - Sign(Pre.v) * ClampedBrakeForce(Pre), MassUnits(Pre))
       /\ ClampedBrakeForce(Pre) >= 0
       /\ ClampedBrakeForce(Pre) <= F_maxBrake(Pre)

\* a step on a moving board that found a brake value below 0 stored
C27_Witness ==
  /\ pc = "unit" /\ Stepped /\ Moving(Pre) /\ Pre.lastBrakePercent < 0
  /\ Pre.mass > 0 /\ hist.last.a = -Sign(Pre.v) * MulDiv(GUnits, Pre.c_roll, 1000)
  /\ Pre.theta = 0

\* ------------------------------------------------------ order of the lists
\* the list with its elements in the order p[1], p[2], ...
Permuted(list, p) == [i \in 1..Len(list) |-> list[p[i]]]
Perms(n) == {p \in [1..n -> 1..n] : \A i, j \in 1..n : p[i] = p[j] => i = j}
\* orders of the rule base: every rotation, the reversal, and every exchange
\* of two neighbouring rules
RuleOrders ==
  LET n == Len(rules)
  IN {[i \in 1..n |-> ((i + k - 1) % n) + 1] : k \in 0..(n - 1)}
     \cup {[i \in 1..n |-> n + 1 - i]}
     \cup {[i \in 1..n |-> IF i = k THEN k + 1 ELSE IF i = k + 1 THEN k ELSE i] :
             k \in 1..(n - 1)}
UniqueNames(list) ==
  \A i, j \in DOMAIN list : list[i].name = list[j].name => i = j

\* C28: with names unique within each variable, getBrakePercent returns the
\* same output for the rule base in any of RuleOrders and for the membership
\* functions of any one variable in any order, for every (speed, distance)
\* inferred.
C28_OrderIndependent ==
  (Inferred /\ UniqueNames(speedMFs) /\ UniqueNames(distanceMFs)
     /\ UniqueNames(brakeMFs)) =>
    /\ \A o \in RuleOrders :
         getBrakePercentWith(Permuted(rules, o), speedMFs, distanceMFs, brakeMFs,
                             Last.speed, Last.distance) = Last.out
    /\ \A p \in Perms(Len(speedMFs)) :
         getBrakePercentWith(rules, Permuted(speedMFs, p), distanceMFs, brakeMFs,
                             Last.speed, Last.distance) = Last.out
    /\ \A p \in Perms(Len(distanceMFs)) :
         getBrakePercentWith(rules, speedMFs, Permuted(distanceMFs, p), brakeMFs,
                             Last.speed, Last.distance) = Last.out
    /\ \A p \in Perms(Len(brakeMFs)) :
         getBrakePercentWith(rules, speedMFs, distanceMFs, Permuted(brakeMFs, p),
                             Last.speed, Last.distance) = Last.out

\* an inference in which two rules with the same output label fire with
\* different degrees and two output functions are active
C28_Witness ==
  /\ Inferred /\ UniqueNames(speedMFs) /\ UniqueNames(distanceMFs)
  /\ UniqueNames(brakeMFs) /\ Last.out > 0
  /\ \E j, k \in DOMAIN rules :
       /\ rules[j].brake = rules[k].brake
       /\ RuleDegree(j) > RuleDegree(k) /\ RuleDegree(k) > 0
  /\ Cardinality(ActiveOutputs) >= 2

\* ------------------------------------------------- parameters during a run
StateParams(s) ==
  <<s.mass, s.obstaclePosition, s.mu, s.theta, s.c_roll, s.ejectAccelThreshold>>

\* C29: while a run is in progress a change of mass, initial speed, obstacle
\* position, mu, incline, rolling resistance or ejection threshold leaves the
\* SimulationState (and the recorder) as it is, and the steps of the run keep
\* the parameters the state had; the render that follows the change, made
\* while the run is in progress, leaves them as they are too.
C29_RunKeepsItsState ==
  [][/\ (simRunning /\ params' # params) =>
          (state' = state /\ logger' = logger /\ simRunning')
     /\ (simRunning /\ react'.params # react.params) =>
          (state' = state /\ logger' = logger /\ simRunning')
     /\ (simRunning /\ simRunning') => StateParams(state') = StateParams(state)]_vars

\* a run that has stepped on with the obstacle it started with, after the
\* operator moved the obstacle slider during it and the change was rendered
\* (handleStart had written the slider's value into the state)
C29_Witness ==
  /\ simRunning /\ hist.runSteps >= 1 /\ state.x > 0 /\ state.t > 0
  /\ params.obstaclePosition # state.obstaclePosition
  /\ react.params = params
  /\ state.obstaclePosition = DefaultParams.obstaclePosition

\* ------------------------------------------------------------ recorder
StepTaken == hist'.runSteps = hist.runSteps + 1

\* C30: every physicsStep of a run, the terminal one included, is followed by
\* exactly one push to the recorder, behind the samples of the earlier steps:
\* the sample's t, x, v, a are those of the state right after the step, and
\* its t is dt more than the t the step started from and than the previous
\* sample's; nothing else appends to the recorder of a run.
C30_OneSamplePerStep ==
  [][/\ StepTaken =>
          /\ Len(logger') = Len(logger) + 1
          /\ SubSeq(logger', 1, Len(logger)) = logger
          /\ LET smp == logger'[Len(logger')]
             IN /\ smp.t = state'.t /\ smp.x = state'.x
                /\ smp.v = state'.v /\ smp.a = state'.a
                /\ smp.t = state.t + state.dt
                /\ logger # << >> => smp.t = logger[Len(logger)].t + state.dt
          /\ Len(logger') = hist'.runSteps
     /\ ~StepTaken =>
          (logger' = logger \/ logger' = << >> \/ logger' = << InitialSample(state') >>)]_vars

\* the terminal step of a run of several steps has been recorded
C30_Witness ==
  /\ pc = "idle" /\ hist.runSteps >= 2 /\ hist.runTerminal # "none"
  /\ Len(logger) = hist.runSteps
  /\ logger[Len(logger)].t = state.t /\ logger[1].t = DtTicks
  /\ logger[Len(logger)].v = 0 /\ state.v = 0

\* ------------------------------------------------------- repeated calls
\* the last operation was an inference with the arguments of the first
\* inference since the last setMemberships
SameCallAgain ==
  /\ pc = "use" /\ Last.op = "infer" /\ hist.first # NoOp /\ hist.ops >= 2
  /\ Last.speed = hist.first.speed /\ Last.distance = hist.first.distance

\* C31: two getBrakePercent calls with identical arguments and no
\* setMemberships between them return identical results, and a
\* getBrakePercent call leaves the configuration as it found it.
C31_SameCallSameResult ==
  /\ SameCallAgain => Last.out = hist.first.out
  /\ (pc = "use" /\ Last.op = "infer") => Config = Last.pre

\* ------------------------------------------------------ starting from rest
\* the step started at rest with gravity's drive toward the obstacle above
\* the total resistance
DrivenFromRest ==
  /\ pc = "unit" /\ Stepped /\ Abs(Pre.v) <= VelTol
  /\ F_gravity(Pre) > F_roll(Pre) + F_brake_mag(Pre)

\* C32: when the body is at rest (|v| <= tolerance) and F_gravity exceeds
\* F_roll + F_brake, physicsStep does not return Rest: the body starts moving
\* and the step ends with v > 0.
C32_DrivenBodyStartsMoving ==
  DrivenFromRest => (Returned # "rest" /\ Post.v > 0)

\* ------------------------------------------------------- no reverse travel
\* C33: after any physicsStep, whatever the velocity it started with
\* (negative included), v >= 0; a step that returned null leaves v above the
\* tolerance and x strictly larger than before; no step leaves x smaller.
C33_NeverBackward ==
  (pc = "unit" /\ Stepped) =>
    /\ Post.v >= 0 /\ state.v >= 0
    /\ Returned = "none" => (Post.v > VelTol /\ Post.x > Pre.x)
    /\ Post.x >= Pre.x

\* a step that started with the board moving away from the obstacle ended
\* the run at rest where it was
C33_Witness ==
  /\ pc = "unit" /\ Stepped /\ Pre.v < -VelTol
  /\ Returned = "rest" /\ Post.v = 0 /\ Post.x = Pre.x
  /\ hist.last.a > 0

\* ----------------------------------------------------- carried remainder
\* a frame has returned by scheduling the next one
FrameReturned == pc = "idle" /\ hist.frameDone

\* C34: after every frame that did not end the run 0 <= accumulator < dt, and
\* the remainder is carried into the next frame: as long as the cap was not
\* hit and no step was terminal, the steps executed since the loop started
\* number floor(timeScale * total elapsed time / dt), and the accumulator
\* holds what is left over.
C34_RemainderCarried ==
  /\ FrameReturned =>
       /\ 0 <= loop.accumulator
       /\ loopIsLeft(loop.accumulator, loop.below, state.dt)
  /\ (FrameReturned /\ ~hist.capHit /\ hist.runTerminal = "none") =>
       /\ hist.runSteps = hist.scaled \div state.dt
       /\ loop.accumulator = hist.scaled % state.dt

\* C34 amended: after every frame that did not end the run
\* 0 <= accumulator < dt, and the remainder is carried into the next frame:
\* as long as the cap was not hit and no step was terminal, the steps
\* executed and the accumulator add up to timeScale * total elapsed time,
\* and the steps number floor(timeScale * total elapsed time / dt), or one
\* fewer where that time is a whole multiple of dt and the accumulator, a
\* rounding error short of dt, holds the step still to be made.
C34_RemainderCarriedRounded ==
  /\ FrameReturned =>
       /\ 0 <= loop.accumulator
       /\ loopIsLeft(loop.accumulator, loop.below, state.dt)
  /\ (FrameReturned /\ ~hist.capHit /\ hist.runTerminal = "none") =>
       /\ hist.runSteps * state.dt + loop.accumulator = hist.scaled
       /\ \/ hist.runSteps = hist.scaled \div state.dt
          \/ /\ hist.scaled % state.dt = 0
             /\ loop.below
             /\ hist.runSteps = hist.scaled \div state.dt - 1

\* the second frame of a run made three steps out of an interval worth two
\* and a half, with the half step the first frame left over
C34_Witness ==
  /\ FrameReturned /\ ~hist.capHit /\ hist.runTerminal = "none"
  /\ hist.scaled > hist.frameAcc0
  /\ hist.frameSteps * state.dt > hist.frameAcc0 - state.dt \div 2
  /\ hist.frameSteps = 3 /\ hist.runSteps = 5 /\ loop.accumulator = 0

\* ------------------------------------------------- Start during a run
\* C35: Start pressed while a run is in progress does nothing: x, t, v and
\* the rest of the state, the recorder, the pending frame and the loop's
\* accumulator stay as they are; a loop is created only when no frame of
\* another is pending, and a frame is pending only for the run in progress.
C35_StartWhileRunningIsNoOp ==
  [][/\ (simRunning /\ handleStart) =>
          /\ state' = state /\ logger' = logger /\ loop' = loop
          /\ rafRef' = rafRef /\ simRunning' /\ ui' = ui /\ pc' = pc
          /\ hist'.starts = hist.starts
     /\ hist'.starts # hist.starts => (~simRunning /\ rafRef = "null")
     /\ rafRef' = "scheduled" => simRunning']_vars

\* Start was pressed after the first step of a run, which goes on from where
\* it was
C35_Witness ==
  /\ simRunning /\ hist.ignored /\ hist.runSteps >= 1
  /\ state.t > 0 /\ state.x > 0 /\ Len(logger) = hist.runSteps
  /\ rafRef = "scheduled" /\ hist.starts = 1

\* ------------------------------------------- the object after installation
\* C36: after setMemberships(cfg), a later mutation by the caller of cfg (one
\* of its lists or a membership function's params) does not change the
\* configuration in effect, nor any getBrakePercent result.
C36_InstalledObjectIsNotShared ==
  (pc = "ctl" /\ Last.op = "mutate" /\ hist.installed) =>
    /\ Config = Last.pre
    /\ \A in \in CtlInputs :
         getBrakePercent(in[1], in[2]) =
           getBrakePercentWith(rules, Last.pre.Speed, Last.pre.Distance,
                               Last.pre.Brake, in[1], in[2])

\* ---------------------------------------------------------------------
\* The circular buffer of utils/logger.ts on its own: a Logger of some
\* capacity, driven by push and clear.  logger holds the object's fields,
\* hist the samples pushed since the last clear.
MaxLogCapacity == 3
MaxLogOps == 6
LogSamples == {1, 2}
NoSample == 0

\* constructor(capacity): buf = new Array(capacity), idx = 0, size = 0
LoggerNew(capacity) ==
  [capacity |-> capacity, buf |-> [j \in 0..(capacity - 1) |-> NoSample],
   idx |-> 0, size |-> 0]

\* push(s)
push(lg, s) ==
  [lg EXCEPT !.buf = [@ EXCEPT ![lg.idx] = s],
             !.idx = (lg.idx + 1) % lg.capacity,
             !.size = IF lg.size < lg.capacity THEN lg.size + 1 ELSE lg.size]

\* clear()
clear(lg) == LoggerNew(lg.capacity)

\* getAll(): the stored samples from the oldest to the newest
getAllFromZero(lg) == [i \in 1..lg.size |-> lg.buf[(i - 1) % lg.capacity]]
getAll(lg) ==
  LET start == (lg.idx - lg.size + lg.capacity) % lg.capacity
  IN [i \in 1..lg.size |-> lg.buf[(start + i - 1) % lg.capacity]]

InitLog ==
  /\ params = DefaultParams
  /\ simRunning = FALSE
  /\ ui = [stopReason |-> "none", visibleStop |-> "none",
           stopFinalized |-> FALSE, lastShownPriority |-> 0]
  /\ react = Committed(params, simRunning, ui)
  /\ tuner = TunerClosed
  /\ speedMFs = DefaultSpeedMFs
  /\ distanceMFs = DefaultDistanceMFs
  /\ brakeMFs = DefaultBrakeMFs
  /\ state = createDefaultState
  /\ rafRef = "null"
  /\ loop = [accumulator |-> 0, timeScale |-> 10,
             capFinalized |-> FALSE, capPriority |-> 0, below |-> FALSE]
  /\ pc = "log"
  /\ \E c \in 1..MaxLogCapacity : logger = LoggerNew(c)
  /\ hist = [ops |-> 0, pushed |-> <<>>, cleared |-> FALSE]

LogFrame ==
  UNCHANGED <<react, tuner, params, simRunning, ui, speedMFs, distanceMFs, brakeMFs, state,
              rafRef, loop, pc>>

LogPush(s) ==
  /\ pc = "log" /\ hist.ops < MaxLogOps
  /\ logger' = push(logger, s)
  /\ hist' = [hist EXCEPT !.ops = @ + 1, !.pushed = Append(@, s)]
  /\ LogFrame

LogClear ==
  /\ pc = "log" /\ hist.ops < MaxLogOps
  /\ logger' = clear(logger)
  /\ hist' = [hist EXCEPT !.ops = @ + 1, !.pushed = <<>>, !.cleared = TRUE]
  /\ LogFrame

NextLog ==
  \/ \E s \in LogSamples : LogPush(s)
  \/ LogClear

SpecLog == InitLog /\ [][NextLog]_vars

\* ---------------------------------------------------------------------
\* getBrakePercent under the default configuration, over a grid of inputs:
\* the ends of the two universes, the breakpoints of the default functions,
\* their neighbours one step inside and outside, and points between them.
GridSpeeds ==
  {0, 1, 1000, 1999, 2000, 2001, 3999, 4000, 4001, 5000, 5999, 6000, 6001,
   7999, 8000, 8001, 9999, 10000}
GridDistances ==
  {0, 1, 200, 299, 300, 301, 499, 500, 501, 900, 1199, 1200, 1201, 1499,
   1500, 1501, 1600, 1999, 2000}

InitGrid ==
  /\ params = DefaultParams
  /\ simRunning = FALSE
  /\ ui = [stopReason |-> "none", visibleStop |-> "none",
           stopFinalized |-> FALSE, lastShownPriority |-> 0]
  /\ react = Committed(params, simRunning, ui)
  /\ tuner = TunerClosed
  /\ speedMFs = DefaultSpeedMFs
  /\ distanceMFs = DefaultDistanceMFs
  /\ brakeMFs = DefaultBrakeMFs
  /\ state = createDefaultState
  /\ rafRef = "null"
  /\ loop = [accumulator |-> 0, timeScale |-> 10,
             capFinalized |-> FALSE, capPriority |-> 0, below |-> FALSE]
  /\ pc = "grid"
  /\ logger = <<>>
  /\ \E speed \in GridSpeeds, distance \in GridDistances :
       hist = [speed |-> speed, distance |-> distance, last |-> NoOp]

\* getBrakePercent(speed, distance)
GridInfer ==
  /\ pc = "grid" /\ hist.last = NoOp
  /\ hist' = [hist EXCEPT !.last =
                [op |-> "infer",
                 pre |-> [Speed |-> speedMFs, Distance |-> distanceMFs,
                          Brake |-> brakeMFs],
                 speed |-> hist.speed, distance |-> hist.distance,
                 out |-> getBrakePercent(hist.speed, hist.distance)]]
  /\ UNCHANGED <<react, tuner, params, simRunning, ui, speedMFs, distanceMFs, brakeMFs,
                 state, rafRef, loop, pc, logger>>

NextGrid == GridInfer

SpecGrid == InitGrid /\ [][NextGrid]_vars

\* ------------------------------------------------ preview of an object
Computed == pc = "use" /\ Last.op = "compute"

\* the step from a preview to a call of getBrakePercent with the same inputs,
\* made while the configuration is the previewed object's three lists
InferredAsPreviewed ==
  /\ Computed
  /\ hist'.last.op = "infer"
  /\ Config = [Speed |-> Last.mfs.Speed, Distance |-> Last.mfs.Distance,
               Brake |-> Last.mfs.Brake]
  /\ hist'.last.speed = Last.speed /\ hist'.last.distance = Last.distance

\* C37: for every object mfs with Speed, Distance and Brake present and every
\* (speed, distance), computeBrakeWithMFs(mfs, speed, distance) is what
\* getBrakePercent(speed, distance) returns once setMemberships(mfs) has been
\* called: the result of the preview equals getBrakePercent's body run over
\* the lists setMemberships(mfs) installs, and where mfs is installed the
\* call of getBrakePercent that follows the preview with the same inputs
\* returns the preview's result; computeBrakeWithMFs leaves the configuration
\* in effect as it found it.
C37_PreviewEqualsInstalled ==
  /\ [](Computed =>
          /\ LET c == setMemberships(Last.mfs)
             IN Last.out = getBrakePercentWith(rules, c.Speed, c.Distance, c.Brake,
                                               Last.speed, Last.distance)
          /\ Config = Last.pre)
  /\ [][InferredAsPreviewed => hist'.last.out = Last.out]_vars

\* the preview of an object that is not the one installed, with another
\* result than the configuration in effect gives
C37_Witness ==
  /\ Computed /\ hist.obj.Brake # brakeMFs /\ ~hist.installed
  /\ Last.out > 0
  /\ Last.out # getBrakePercent(Last.speed, Last.distance)

\* ------------------------------------------------ the circular buffer
\* the last k elements of a list
LastOf(l, k) == SubSeq(l, Len(l) - k + 1, Len(l))

\* C39: for a Logger of capacity C >= 1 and any sequence of push and clear
\* calls, getAll() returns exactly the last min(n, C) samples pushed since the
\* last clear, n being their number, from the oldest to the newest, and the
\* number of stored samples never exceeds C.
C39_LastSamplesInOrder ==
  pc = "log" =>
    /\ getAll(logger) =
         LastOf(hist.pushed, Min(Len(hist.pushed), logger.capacity))
    /\ logger.size <= logger.capacity
    /\ Len(getAll(logger)) <= logger.capacity

\* after a clear, more samples than the buffer holds were pushed, and the
\* oldest one kept is not the first one pushed
C39_Witness ==
  /\ pc = "log" /\ hist.cleared /\ logger.capacity >= 2
  /\ Len(hist.pushed) > logger.capacity
  /\ getAll(logger)[1] # hist.pushed[1]
  /\ getAll(logger)[1] # getAll(logger)[2]

\* ------------------------------------------------ the default rule base
\* the rules with positive degree for the inputs of the last inference
FiringRules == {k \in DOMAIN rules : RuleDegree(k) > 0}
InsideUniverse ==
  /\ pc = "grid" /\ Last.op = "infer"
  /\ 0 < Last.speed /\ Last.speed < 10000
  /\ 0 < Last.distance /\ Last.distance < 2000

\* C38: with the default configuration, for every speed strictly between 0
\* and 10 and every distance strictly between 0 and 20, at least one rule
\* has positive activation and getBrakePercent returns a value above 0.
C38_DefaultsCoverTheInterior ==
  InsideUniverse => (FiringRules # {} /\ Last.out > 0)

\* an input inside both universes where one rule alone fires, the one for a
\* low speed far from the obstacle
C38_Witness ==
  /\ InsideUniverse
  /\ FiringRules = {9}
  /\ Last.out > 0

\* ------------------------------------------------ the notice of the stop
\* C40: across any sequence of runs (start, end, possibly a dismissal of the
\* notice, start or reset, end again), the stop reason handleStop makes
\* visible after the latest onEnd is the terminal reason of the latest run;
\* a reason left visible by an earlier run never masks it.
C40_VisibleReasonIsLatest ==
  (Ended /\ ui.visibleStop # "none") => ui.visibleStop = hist.endReason

====
